---- MODULE Spec2Model ----
(***************************************************************************)
(* A model of the authorization / authentication core of nestjs-template:  *)
(* the User and Role entities with their specifications, RoleService,      *)
(* UserService, AuthService (refresh tokens, email verification, OTP,      *)
(* password reset) and the in-memory ThrottlerService.                     *)
(*                                                                         *)
(* The persistence layer is modelled as reliable tables (the variables):   *)
(* a service method that loads, mutates and persists is one atomic action. *)
(* Every action records what it did in `last` (operation, arguments,       *)
(* raised exception or "ok"), so that the properties below can speak about *)
(* the outcome of a call.                                                  *)
(***************************************************************************)
EXTENDS Integers, Sequences, FiniteSets, TLC

VARIABLES
    roles,      \* role table:  role id -> row (RoleRepository)
    users,      \* user table:  user id -> row, with its user_role links
    refresh,    \* refresh_token table: a set of rows
    resets,     \* password_reset table: a set of rows
    verifs,     \* email_verification table: a set of rows
    otps,       \* otp table: a set of rows
    storage,    \* ThrottlerService.storage: identifier -> {count, ttl}
    now,        \* the clock (minutes for AuthService, ms for the throttler)
    win,        \* history: per identifier, the calls made in its open window
    ent,        \* the entities held in memory: a User and a Role object
    flight,     \* the command handlers in flight and the uuids generated so far
    last        \* the last call: operation, arguments, outcome

vars ==
    <<roles, users, refresh, resets, verifs, otps, storage, now, win, ent, flight, last>>

(***************************************************************************)
(* Strings that the code inspects character by character (role names) are  *)
(* sequences of one-character strings.                                     *)
(***************************************************************************)
N_admin == <<"a", "d", "m", "i", "n">>
N_user  == <<"u", "s", "e", "r">>
N_User  == <<"U", "s", "e", "r">>
N_administrator == <<"a", "d", "m", "i", "n", "i", "s", "t", "r", "a", "t", "o", "r">>
N_blank == <<" ">>

\* Role.validateName: the longest name accepted
MaxRoleNameLength == 100

N_long == [i \in 1..(MaxRoleNameLength + 1) |-> "x"]

\* String.prototype.toLowerCase, on the alphabet of the names above
LowerChar(c) ==
    CASE c = "A" -> "a"
      [] c = "U" -> "u"
      [] OTHER -> c

ToLowerCase(s) == [i \in 1..Len(s) |-> LowerChar(s[i])]

\* String.prototype.includes
Includes(s, sub) ==
    \E i \in 0..(Len(s) - Len(sub)) : \A j \in 1..Len(sub) : s[i + j] = sub[j]

\* String.prototype.trim
RECURSIVE TrimLeft(_)
TrimLeft(s) == IF s # <<>> /\ Head(s) = " " THEN TrimLeft(Tail(s)) ELSE s

RECURSIVE TrimRight(_)
TrimRight(s) ==
    IF s # <<>> /\ s[Len(s)] = " " THEN TrimRight(SubSeq(s, 1, Len(s) - 1)) ELSE s

Trim(s) == TrimRight(TrimLeft(s))

(***************************************************************************)
(* Permissions: the permission table is the seeded one and is never        *)
(* changed by the services modelled here.  A permission's name is          *)
(* "resource:action", here the pair <<resource, action>>.                  *)
(***************************************************************************)
P_userRead   == [id |-> 1, resource |-> "user", action |-> "read"]
P_roleUpdate == [id |-> 2, resource |-> "role", action |-> "update"]
P_roleDelete == [id |-> 3, resource |-> "role", action |-> "delete"]

Permissions == {P_userRead, P_roleUpdate, P_roleDelete}

PermissionIds == {p.id : p \in Permissions}

PermissionById(pid) == CHOOSE p \in Permissions : p.id = pid

getPermissionName(p) == <<p.resource, p.action>>

\* PermissionsCollection.validatePermissions: does the constructor accept?
validatePermissions(perms) ==
    \A p, q \in perms : (p # q) => (p.id # q.id /\ getPermissionName(p) # getPermissionName(q))

hasAdminPermissions(perms) ==
    \E p \in perms :
        /\ p.resource \in {"user", "role", "permission", "system"}
        /\ p.action \in {"create", "update", "delete"}

(***************************************************************************)
(* Role entity.  A loaded role is [id, name, perms, isDefault] with perms  *)
(* a set of permission records.                                            *)
(***************************************************************************)
validateName(name) == ~(name = <<>> \/ Len(Trim(name)) = 0) /\ Len(name) <= MaxRoleNameLength

\* descriptions are only validated: "" is rejected, "d" is accepted
validateDescription(desc) == ~(desc = <<>> \/ Len(Trim(desc)) = 0)

\* (the permissionsCollection getter validates the role's permissions first;
\* rows of the permission table have distinct ids and names, so it accepts)
isAdminRole(role) ==
    \/ hasAdminPermissions(role.perms)
    \/ Includes(ToLowerCase(role.name), N_admin)
    \/ Includes(ToLowerCase(role.name), N_administrator)

canBeDeleted(role) == ~role.isDefault

\* CanAssignPermissionToRoleSpecification.isSystemAdminPermission
isSystemAdminPermission(p) ==
    /\ p.resource \in {"user", "role", "permission", "system"}
    /\ p.action \in {"delete", "create", "update"}

\* a specification that only refuses a permission the role already holds
CanAssignPermissionToRoleSpecification_OnlyHeld(role, p) ==
    IF \E q \in role.perms : q.id = p.id THEN FALSE
    ELSE TRUE

\* CanAssignPermissionToRoleSpecification(p).isSatisfiedBy(role)
CanAssignPermissionToRoleSpecification(role, p) ==
    IF \E q \in role.perms : q.id = p.id THEN FALSE
    ELSE IF isSystemAdminPermission(p) /\ ~isAdminRole(role) THEN FALSE
    ELSE TRUE

\* The Role business methods return [err, role, touched]: the exception raised
\* or "ok", the entity afterwards, and whether updatedAt was assigned.
addPermission(role, p) ==
    IF ~CanAssignPermissionToRoleSpecification(role, p)
    THEN [err |-> "PermissionAlreadyAssigned", role |-> role, touched |-> FALSE]
    ELSE [err |-> "ok", role |-> [role EXCEPT !.perms = @ \cup {p}], touched |-> TRUE]

removePermission(role, pid) ==
    IF ~(\E q \in role.perms : q.id = pid)
    THEN [err |-> "ok", role |-> role, touched |-> FALSE]
    ELSE [err |-> "ok", role |-> [role EXCEPT !.perms = {q \in @ : q.id # pid}],
          touched |-> TRUE]

\* name = <<>> / desc = <<>> stand for an omitted (or empty, falsy) argument;
\* the description itself is not kept, a given one counts as a change
updateDetails(role, name, desc) ==
    IF name # <<>> /\ name # role.name /\ ~validateName(name)
    THEN [err |-> "InvalidValueObject", role |-> role, touched |-> FALSE]
    ELSE IF desc # <<>> /\ ~validateDescription(desc)
    THEN [err |-> "InvalidValueObject", role |-> role, touched |-> FALSE]
    ELSE [err |-> "ok",
          role |-> IF name # <<>> /\ name # role.name
                   THEN [role EXCEPT !.name = name] ELSE role,
          touched |-> (name # <<>> /\ name # role.name) \/ desc # <<>>]

setAsDefault(role) ==
    IF role.isDefault
    THEN [err |-> "ok", role |-> role, touched |-> FALSE]
    ELSE [err |-> "ok", role |-> [role EXCEPT !.isDefault = TRUE], touched |-> TRUE]

removeAsDefault(role) ==
    IF ~role.isDefault
    THEN [err |-> "ok", role |-> role, touched |-> FALSE]
    ELSE [err |-> "ok", role |-> [role EXCEPT !.isDefault = FALSE], touched |-> TRUE]

(***************************************************************************)
(* RolesCollection                                                         *)
(***************************************************************************)
\* RolesCollection.validateRoles: does the constructor accept the roles?
validateRoles(rs) ==
    /\ \A r, s \in rs : (r # s) => (r.id # s.id /\ ToLowerCase(r.name) # ToLowerCase(s.name))
    /\ Cardinality({r \in rs : r.isDefault}) <= 1

hasAdminPrivileges(rs) == \E r \in rs : isAdminRole(r)

RolesHasPermission(rs, pname) ==
    \E r \in rs : \E p \in r.perms : getPermissionName(p) = pname

(***************************************************************************)
(* User entity.  A loaded user is [id, isActive, roles, ...] with roles a  *)
(* set of loaded roles.  The business methods return [err, user, touched]: *)
(* the exception raised or "ok", the entity afterwards, and whether        *)
(* updatedAt was assigned.                                                 *)
(***************************************************************************)
hasRole(user, rid) == \E r \in user.roles : r.id = rid

\* User.rolesCollection: the getter constructs a RolesCollection, which throws
\* InvalidValueObjectException when validateRoles rejects the user's roles
rolesCollectionThrows(user) == ~validateRoles(user.roles)

\* User.isEligibleForAdminRole: "throw", or the boolean it returns
isEligibleForAdminRole(user) ==
    IF ~user.isActive THEN "false"
    ELSE IF rolesCollectionThrows(user) THEN "throw"
    ELSE IF hasAdminPrivileges(user.roles) THEN "true" ELSE "false"

\* User.hasPermission: "throw", or the boolean it returns
hasPermission(user, pname) ==
    IF rolesCollectionThrows(user) THEN "throw"
    ELSE IF RolesHasPermission(user.roles, pname) THEN "true" ELSE "false"

\* CanAssignRoleSpecification(role).isSatisfiedBy(user)
CanAssignRoleSpecification(user, role) ==
    IF ~user.isActive THEN "false"
    ELSE IF hasRole(user, role.id) THEN "false"
    ELSE IF isAdminRole(role)
         THEN (CASE isEligibleForAdminRole(user) = "throw" -> "throw"
                 [] isEligibleForAdminRole(user) = "false" -> "false"
                 [] OTHER -> "true")
         ELSE "true"

addRole(user, role) ==
    LET sat == CanAssignRoleSpecification(user, role) IN
    IF sat = "throw"
    THEN [err |-> "InvalidValueObject", user |-> user, touched |-> FALSE]
    ELSE IF sat = "false"
    THEN IF ~user.isActive
         THEN [err |-> "InactiveUser", user |-> user, touched |-> FALSE]
         ELSE IF hasRole(user, role.id)
         THEN [err |-> "UserAlreadyHasRole", user |-> user, touched |-> FALSE]
         ELSE [err |-> "UserNotEligibleForRole", user |-> user, touched |-> FALSE]
    ELSE [err |-> "ok", user |-> [user EXCEPT !.roles = @ \cup {role}], touched |-> TRUE]

\* a removeRole that lets the last role go
removeRole_AllowsLast(user, rid) ==
    IF ~user.isActive
    THEN [err |-> "InactiveUser", user |-> user, touched |-> FALSE]
    ELSE IF ~hasRole(user, rid)
    THEN [err |-> "ok", user |-> user, touched |-> FALSE]
    ELSE [err |-> "ok",
          user |-> [user EXCEPT !.roles = {r \in @ : r.id # rid}],
          touched |-> TRUE]

removeRole(user, rid) ==
    IF ~user.isActive
    THEN [err |-> "InactiveUser", user |-> user, touched |-> FALSE]
    ELSE IF Cardinality(user.roles) <= 1
    THEN [err |-> "UserCannotRemoveLastRole", user |-> user, touched |-> FALSE]
    ELSE IF ~hasRole(user, rid)
    THEN [err |-> "ok", user |-> user, touched |-> FALSE]
    ELSE [err |-> "ok",
          user |-> [user EXCEPT !.roles = {r \in @ : r.id # rid}],
          touched |-> TRUE]

\* an activate that assigns isActive and updatedAt whatever the state
activate_Always(user) ==
    [err |-> "ok", user |-> [user EXCEPT !.isActive = TRUE], touched |-> TRUE]

activate(user) ==
    IF user.isActive
    THEN [err |-> "ok", user |-> user, touched |-> FALSE]
    ELSE [err |-> "ok", user |-> [user EXCEPT !.isActive = TRUE], touched |-> TRUE]

deactivate(user) ==
    IF ~user.isActive
    THEN [err |-> "ok", user |-> user, touched |-> FALSE]
    ELSE [err |-> "ok", user |-> [user EXCEPT !.isActive = FALSE], touched |-> TRUE]

\* otpSecret is <<>> (undefined) or <<secret>>; of the secrets used here,
\* "" and " " are the ones with !secret || secret.trim().length === 0
enableTwoFactor(user, secret) ==
    IF secret \in {"", " "}
    THEN [err |-> "InvalidValueObject", user |-> user, touched |-> FALSE]
    ELSE IF ~user.isActive
    THEN [err |-> "InactiveUser", user |-> user, touched |-> FALSE]
    ELSE [err |-> "ok",
          user |-> [user EXCEPT !.otpEnabled = TRUE, !.otpSecret = <<secret>>],
          touched |-> TRUE]

disableTwoFactor(user) ==
    IF ~user.otpEnabled
    THEN [err |-> "ok", user |-> user, touched |-> FALSE]
    ELSE [err |-> "ok",
          user |-> [user EXCEPT !.otpEnabled = FALSE, !.otpSecret = <<>>],
          touched |-> TRUE]

\* a changeEmail that does not ask whether the user is active
changeEmail_WhileInactive(user, newEmail) ==
    IF user.email = newEmail
    THEN [err |-> "ok", user |-> user, touched |-> FALSE]
    ELSE [err |-> "ok", user |-> [user EXCEPT !.email = newEmail], touched |-> TRUE]

\* Email.equals compares the strings exactly
changeEmail(user, newEmail) ==
    IF ~user.isActive
    THEN [err |-> "InactiveUser", user |-> user, touched |-> FALSE]
    ELSE IF user.email = newEmail
    THEN [err |-> "ok", user |-> user, touched |-> FALSE]
    ELSE [err |-> "ok", user |-> [user EXCEPT !.email = newEmail], touched |-> TRUE]

\* firstName / lastName are <<>> (omitted) or <<name>>
updateProfile(user, firstName, lastName) ==
    IF ~user.isActive
    THEN [err |-> "InactiveUser", user |-> user, touched |-> FALSE]
    ELSE LET first == firstName # <<>> /\ user.firstName # firstName[1]
             lastc == lastName # <<>> /\ user.lastName # lastName[1]
         IN [err |-> "ok",
             user |-> [user EXCEPT !.firstName = IF first THEN firstName[1] ELSE @,
                                   !.lastName = IF lastc THEN lastName[1] ELSE @],
             touched |-> first \/ lastc]

\* User.create at time t: active, two-factor off, no roles
UserCreate(id, email, passwordHash, firstName, lastName, t) ==
    [id |-> id, email |-> email, hash |-> passwordHash,
     firstName |-> firstName, lastName |-> lastName,
     isActive |-> TRUE, otpEnabled |-> FALSE, otpSecret |-> <<>>,
     roles |-> {}, updatedAt |-> t]

\* Role.create at time t (for a name and description it accepts)
RoleCreate(id, name, isDefault, t) ==
    [id |-> id, name |-> name, perms |-> {}, isDefault |-> isDefault, updatedAt |-> t]

(***************************************************************************)
(* UserAuthorizationService                                                *)
(***************************************************************************)
\* CompleteUserAccountSpecification (first and last name are value objects
\* that are never empty)
CompleteUserAccount(user) ==
    user.isActive /\ Len(user.email) > 0 /\ Cardinality(user.roles) > 0

canAccessAdminFeatures(user) ==
    user.isActive /\ (\E r \in user.roles : isAdminRole(r)) /\ CompleteUserAccount(user)

\* "throw", or the boolean it returns
canDeleteRole(user, role) ==
    IF ~canAccessAdminFeatures(user) THEN "false"
    ELSE IF ~canBeDeleted(role) THEN "false"
    ELSE hasPermission(user, <<"role", "delete">>)

\* "throw", or the boolean it returns
canAssignRole(assigner, target, role) ==
    IF ~canAccessAdminFeatures(assigner) THEN "false"
    ELSE IF CanAssignRoleSpecification(target, role) # "true"
         THEN CanAssignRoleSpecification(target, role)
    ELSE IF isAdminRole(role) THEN hasPermission(assigner, <<"role", "update">>)
    ELSE "true"

(***************************************************************************)
(* The role and user tables                                                *)
(***************************************************************************)
\* the pool of role ids: 1 and 2 are the seeded roles, a created role takes an
\* unused id
RoleIds == {1, 2, 3}

\* users 1 and 2 are registered; no user has id 3
UserIds == {1, 2, 3}

\* the id that no row has: "no id given" (an omitted assignerId / deleterId),
\* "no row" in a result
NoId == CHOOSE n \in 0..Cardinality(RoleIds) : n \notin RoleIds \cup UserIds

NoRoleRow == [exists |-> FALSE, name |-> <<>>, perms |-> {}, isDefault |-> FALSE]

RoleRow(name, perms, isDefault) ==
    [exists |-> TRUE, name |-> name, perms |-> perms, isDefault |-> isDefault]

\* RoleRepository.mapToModel
LoadRole(tbl, rid) ==
    [id |-> rid, name |-> tbl[rid].name,
     perms |-> {PermissionById(pid) : pid \in tbl[rid].perms},
     isDefault |-> tbl[rid].isDefault]

\* RoleRepository.create / update: the row written for a role entity
SaveRole(tbl, role) ==
    [tbl EXCEPT ![role.id] = RoleRow(role.name, {p.id : p \in role.perms}, role.isDefault)]

\* RoleRepository.findByName (the name column is compared exactly)
findByName(tbl, name) == {rid \in RoleIds : tbl[rid].exists /\ tbl[rid].name = name}

\* RoleRepository.findDefaultRole: findFirst, any of the rows marked default
findDefaultRole(tbl) == {rid \in RoleIds : tbl[rid].exists /\ tbl[rid].isDefault}

FreeRoleIds(tbl) == {rid \in RoleIds : ~tbl[rid].exists}

\* UserRepository.mapToModel: the user with the roles its links point to
LoadUser(utbl, rtbl, uid) ==
    [id |-> uid, email |-> utbl[uid].email, hash |-> utbl[uid].hash,
     firstName |-> utbl[uid].firstName, lastName |-> utbl[uid].lastName,
     isActive |-> utbl[uid].isActive,
     otpEnabled |-> utbl[uid].otpEnabled, otpSecret |-> utbl[uid].otpSecret,
     roles |-> {LoadRole(rtbl, rid) : rid \in utbl[uid].roleIds}]

\* UserRepository.update: the row and the links written for a user entity.
\* Prisma leaves a column alone when the value given for it is undefined, so
\* an entity without an otpSecret does not clear the stored one.
SaveUser(utbl, user) ==
    [utbl EXCEPT ![user.id].email = user.email,
                 ![user.id].hash = user.hash,
                 ![user.id].firstName = user.firstName,
                 ![user.id].lastName = user.lastName,
                 ![user.id].isActive = user.isActive,
                 ![user.id].otpEnabled = user.otpEnabled,
                 ![user.id].otpSecret = IF user.otpSecret = <<>> THEN @ ELSE user.otpSecret,
                 ![user.id].roleIds = {r.id : r \in user.roles}]

(***************************************************************************)
(* RoleService                                                             *)
(***************************************************************************)
\* a createRole that leaves the existing default role as it is
UnsetDefaultRole_Skipped(tbl, isDefault) == {tbl}

\* "If this is a default role, unset any existing default role": the tables
\* that can result (findDefaultRole returns any one default row)
UnsetDefaultRole(tbl, isDefault) ==
    IF isDefault /\ findDefaultRole(tbl) # {}
    THEN {[tbl EXCEPT ![d].isDefault = FALSE] : d \in findDefaultRole(tbl)}
    ELSE {tbl}

createRoleWithPermissions(name, desc, pids, isDefault, op) ==
    IF findByName(roles, name) # {}
    THEN /\ roles' = roles
         /\ last' = [op |-> op, err |-> "EntityAlreadyExists", rid |-> NoId,
                     isDefault |-> isDefault, handoff |-> FALSE]
    ELSE \E tbl \in UnsetDefaultRole(roles, isDefault) :
           IF ~validateName(name) \/ ~validateDescription(desc)
           THEN /\ roles' = tbl
                /\ last' = [op |-> op, err |-> "InvalidValueObject", rid |-> NoId,
                            isDefault |-> isDefault, handoff |-> tbl # roles]
           ELSE IF ~(pids \subseteq PermissionIds)
           THEN /\ roles' = tbl
                /\ last' = [op |-> op, err |-> "EntityNotFound", rid |-> NoId,
                            isDefault |-> isDefault, handoff |-> tbl # roles]
           ELSE /\ FreeRoleIds(roles) # {}
                /\ LET rid == CHOOSE r \in FreeRoleIds(roles) :
                                  \A q \in FreeRoleIds(roles) : r <= q
                   IN /\ roles' = [tbl EXCEPT ![rid] = RoleRow(name, pids, isDefault)]
                      /\ last' = [op |-> op, err |-> "ok", rid |-> rid,
                                  isDefault |-> isDefault, handoff |-> tbl # roles]

\* createRole is createRoleWithPermissions without the permission loop
CreateRole(name, desc, isDefault) ==
    /\ createRoleWithPermissions(name, desc, {}, isDefault, "createRole")
    /\ UNCHANGED <<users, refresh, resets, verifs, otps, storage, now, win, ent, flight>>

CreateRoleWithPermissions(name, desc, pids, isDefault) ==
    /\ createRoleWithPermissions(name, desc, pids, isDefault, "createRoleWithPermissions")
    /\ UNCHANGED <<users, refresh, resets, verifs, otps, storage, now, win, ent, flight>>

\* updateRole's "If making this role default, unset any existing default role"
UnsetOtherDefaultRole(tbl, role, isDefault) ==
    IF isDefault = "true" /\ ~role.isDefault /\ findDefaultRole(tbl) # {}
    THEN {IF d # role.id
          THEN SaveRole(tbl, removeAsDefault(LoadRole(tbl, d)).role)
          ELSE tbl : d \in findDefaultRole(tbl)}
    ELSE {tbl}

\* isDefault is "undef" (omitted), "true" or "false"
UpdateRole(rid, name, desc, isDefault) ==
    /\ UNCHANGED <<users, refresh, resets, verifs, otps, storage, now, win, ent, flight>>
    /\ IF ~roles[rid].exists
       THEN /\ roles' = roles
            /\ last' = [op |-> "updateRole", err |-> "EntityNotFound", rid |-> rid,
                        isDefault |-> isDefault = "true", handoff |-> FALSE]
       ELSE IF name # <<>> /\ findByName(roles, name) \ {rid} # {}
       THEN /\ roles' = roles
            /\ last' = [op |-> "updateRole", err |-> "EntityAlreadyExists", rid |-> rid,
                        isDefault |-> isDefault = "true", handoff |-> FALSE]
       ELSE LET upd == updateDetails(LoadRole(roles, rid), name, desc) IN
            IF upd.err # "ok"
            THEN /\ roles' = roles
                 /\ last' = [op |-> "updateRole", err |-> upd.err, rid |-> rid,
                             isDefault |-> isDefault = "true", handoff |-> FALSE]
            ELSE \E tbl \in UnsetOtherDefaultRole(roles, upd.role, isDefault) :
                   LET role == CASE isDefault = "true" -> setAsDefault(upd.role).role
                                 [] isDefault = "false" -> removeAsDefault(upd.role).role
                                 [] OTHER -> upd.role
                   IN /\ roles' = SaveRole(tbl, role)
                      /\ last' = [op |-> "updateRole", err |-> "ok", rid |-> rid,
                                  isDefault |-> isDefault = "true",
                                  handoff |-> tbl # roles]

\* pid ranges over the permission ids and one id that no permission has
AssignPermissionToRole(rid, pid) ==
    /\ UNCHANGED <<users, refresh, resets, verifs, otps, storage, now, win, ent, flight>>
    /\ IF ~roles[rid].exists \/ pid \notin PermissionIds
       THEN /\ roles' = roles
            /\ last' = [op |-> "assignPermissionToRole", err |-> "EntityNotFound",
                        rid |-> rid, pid |-> pid]
       ELSE LET res == addPermission(LoadRole(roles, rid), PermissionById(pid)) IN
            /\ roles' = IF res.err = "ok" THEN SaveRole(roles, res.role) ELSE roles
            /\ last' = [op |-> "assignPermissionToRole", err |-> res.err,
                        rid |-> rid, pid |-> pid]

RemovePermissionFromRole(rid, pid) ==
    /\ UNCHANGED <<users, refresh, resets, verifs, otps, storage, now, win, ent, flight>>
    /\ IF ~roles[rid].exists
       THEN /\ roles' = roles
            /\ last' = [op |-> "removePermissionFromRole", err |-> "EntityNotFound",
                        rid |-> rid, pid |-> pid]
       ELSE LET res == removePermission(LoadRole(roles, rid), pid) IN
            /\ roles' = SaveRole(roles, res.role)
            /\ last' = [op |-> "removePermissionFromRole", err |-> res.err,
                        rid |-> rid, pid |-> pid]

\* RoleRepository.delete: the row goes, and with it the links of the users that
\* held the role (user_role rows are deleted with their role)
DeleteRoleRow(rid) ==
    /\ roles' = [roles EXCEPT ![rid] = NoRoleRow]
    /\ users' = [u \in UserIds |-> [users[u] EXCEPT !.roleIds = @ \ {rid}]]

\* a deleteRole that deletes whatever role it finds
DeleteRole_Unchecked(rid, deleter) ==
    /\ UNCHANGED <<refresh, resets, verifs, otps, storage, now, win, ent, flight>>
    /\ IF ~roles[rid].exists
       THEN /\ UNCHANGED <<roles, users>>
            /\ last' = [op |-> "deleteRole", err |-> "EntityNotFound", rid |-> rid,
                        uid |-> deleter, wasDefault |-> FALSE]
       ELSE /\ DeleteRoleRow(rid)
            /\ last' = [op |-> "deleteRole", err |-> "ok", rid |-> rid,
                        uid |-> deleter, wasDefault |-> roles[rid].isDefault]

\* deleter = NoId: no deleterId given
DeleteRole(rid, deleter) ==
    /\ UNCHANGED <<refresh, resets, verifs, otps, storage, now, win, ent, flight>>
    /\ LET wasDefault == roles[rid].exists /\ roles[rid].isDefault
           fail(e) == /\ UNCHANGED <<roles, users>>
                      /\ last' = [op |-> "deleteRole", err |-> e, rid |-> rid,
                                  uid |-> deleter, wasDefault |-> wasDefault]
       IN
       IF ~roles[rid].exists THEN fail("EntityNotFound")
       ELSE IF deleter # NoId /\ ~users[deleter].exists THEN fail("EntityNotFound")
       ELSE IF deleter # NoId
               /\ canDeleteRole(LoadUser(users, roles, deleter), LoadRole(roles, rid)) = "throw"
       THEN fail("InvalidValueObject")
       ELSE IF deleter # NoId
               /\ canDeleteRole(LoadUser(users, roles, deleter), LoadRole(roles, rid)) = "false"
       THEN fail("ForbiddenAction")
       ELSE IF LoadRole(roles, rid).isDefault THEN fail("ForbiddenAction")
       ELSE /\ DeleteRoleRow(rid)
            /\ last' = [op |-> "deleteRole", err |-> "ok", rid |-> rid,
                        uid |-> deleter, wasDefault |-> wasDefault]

(***************************************************************************)
(* UserService                                                             *)
(***************************************************************************)
\* [...new Set(roleIds)]: the first occurrence of each id, in order
RECURSIVE Dedup(_)
Dedup(ids) ==
    IF ids = <<>> THEN <<>>
    ELSE LET front == Dedup(SubSeq(ids, 1, Len(ids) - 1))
             x == ids[Len(ids)]
         IN IF \E i \in 1..Len(front) : front[i] = x THEN front ELSE Append(front, x)

\* updateUserDetails, "Remove roles that are no longer selected": removeRole
\* for each id of ids in turn, up to the first exception
RECURSIVE removeRoles(_, _)
removeRoles(user, ids) ==
    IF ids = {} THEN [err |-> "ok", user |-> user]
    ELSE LET rid == CHOOSE r \in ids : \A q \in ids : r <= q
             res == removeRole(user, rid)
         IN IF res.err # "ok" THEN [err |-> res.err, user |-> user]
            ELSE removeRoles(res.user, ids \ {rid})

\* updateUserDetails, "Add new roles that weren't previously assigned"
RECURSIVE addRoles(_, _, _, _)
addRoles(user, ids, current, tbl) ==
    IF ids = <<>> THEN [err |-> "ok", user |-> user]
    ELSE IF Head(ids) \in current THEN addRoles(user, Tail(ids), current, tbl)
    ELSE IF ~tbl[Head(ids)].exists THEN [err |-> "EntityNotFound", user |-> user]
    ELSE LET res == addRole(user, LoadRole(tbl, Head(ids))) IN
         IF res.err # "ok" THEN [err |-> res.err, user |-> user]
         ELSE addRoles(res.user, Tail(ids), current, tbl)

\* roleIds is [given |-> FALSE] or [given |-> TRUE, ids |-> a sequence of ids];
\* isActive is "undef" (omitted), "true" or "false".  Names and email are omitted.
UpdateUserDetails(uid, roleIds, isActive) ==
    /\ UNCHANGED <<roles, refresh, resets, verifs, otps, storage, now, win, ent, flight>>
    /\ LET done(e) == last' = [op |-> "updateUserDetails", err |-> e, uid |-> uid,
                               roleIds |-> roleIds, isActive |-> isActive]
           user == LoadUser(users, roles, uid)
           current == {r.id : r \in user.roles}
           newRoleIds == Dedup(roleIds.ids)
           removed == IF roleIds.given
                      THEN removeRoles(user, current \ {newRoleIds[i] : i \in 1..Len(newRoleIds)})
                      ELSE [err |-> "ok", user |-> user]
           added == IF roleIds.given
                    THEN addRoles(removed.user, newRoleIds, current, roles)
                    ELSE removed
           final == CASE isActive = "true" -> activate(added.user).user
                      [] isActive = "false" -> deactivate(added.user).user
                      [] OTHER -> added.user
       IN
       IF ~users[uid].exists THEN done("EntityNotFound") /\ users' = users
       ELSE IF ~user.isActive THEN done("InactiveUser") /\ users' = users
       ELSE IF removed.err # "ok" THEN done(removed.err) /\ users' = users
       ELSE IF added.err # "ok" THEN done(added.err) /\ users' = users
       ELSE done("ok") /\ users' = SaveUser(users, final)

\* assigner = NoId: no assignerId given
AssignRoleToUser(uid, rid, assigner) ==
    /\ UNCHANGED <<roles, refresh, resets, verifs, otps, storage, now, win, ent, flight>>
    /\ LET done(e) == last' = [op |-> "assignRoleToUser", err |-> e, uid |-> uid,
                               rid |-> rid, assigner |-> assigner]
           targetUser == LoadUser(users, roles, uid)
           role == LoadRole(roles, rid)
           allowed == canAssignRole(LoadUser(users, roles, assigner), targetUser, role)
           res == addRole(targetUser, role)
       IN
       IF ~users[uid].exists THEN done("EntityNotFound") /\ users' = users
       ELSE IF ~roles[rid].exists THEN done("EntityNotFound") /\ users' = users
       ELSE IF assigner # NoId /\ ~users[assigner].exists
       THEN done("EntityNotFound") /\ users' = users
       ELSE IF assigner # NoId /\ allowed = "throw"
       THEN done("InvalidValueObject") /\ users' = users
       ELSE IF assigner # NoId /\ allowed = "false"
       THEN done("ForbiddenAction") /\ users' = users
       ELSE IF res.err # "ok" THEN done(res.err) /\ users' = users
       ELSE done("ok") /\ users' = SaveUser(users, res.user)

RemoveRoleFromUser(uid, rid) ==
    /\ UNCHANGED <<roles, refresh, resets, verifs, otps, storage, now, win, ent, flight>>
    /\ LET done(e) == last' = [op |-> "removeRoleFromUser", err |-> e, uid |-> uid,
                               rid |-> rid]
           res == removeRole(LoadUser(users, roles, uid), rid)
       IN
       IF ~users[uid].exists THEN done("EntityNotFound") /\ users' = users
       ELSE IF res.err # "ok" THEN done(res.err) /\ users' = users
       ELSE done("ok") /\ users' = SaveUser(users, res.user)

ActivateUser(uid) ==
    /\ UNCHANGED <<roles, refresh, resets, verifs, otps, storage, now, win, ent, flight>>
    /\ IF ~users[uid].exists
       THEN /\ last' = [op |-> "activateUser", err |-> "EntityNotFound", uid |-> uid]
            /\ users' = users
       ELSE /\ last' = [op |-> "activateUser", err |-> "ok", uid |-> uid]
            /\ users' = SaveUser(users, activate(LoadUser(users, roles, uid)).user)

DeactivateUser(uid) ==
    /\ UNCHANGED <<roles, refresh, resets, verifs, otps, storage, now, win, ent, flight>>
    /\ IF ~users[uid].exists
       THEN /\ last' = [op |-> "deactivateUser", err |-> "EntityNotFound", uid |-> uid]
            /\ users' = users
       ELSE /\ last' = [op |-> "deactivateUser", err |-> "ok", uid |-> uid]
            /\ users' = SaveUser(users, deactivate(LoadUser(users, roles, uid)).user)


(***************************************************************************)
(* Passwords.  bcrypt is modelled by what the code relies on: hash(p) is   *)
(* not p, and compare(p, h) holds exactly when h is a hash of p.           *)
(***************************************************************************)
Passwords == {"Admin@123", "User@1234"}

hashPassword(p) == <<"bcrypt", p>>

\* a comparePasswords that accepts every password
comparePasswords_Always(p, h) == TRUE

comparePasswords(p, h) == h = hashPassword(p)

(***************************************************************************)
(* Email addresses, as local part, "@" and domain.  The Email value object *)
(* accepts the well-formed ones and preserves case.                        *)
(***************************************************************************)
E_admin == <<"admin", "@", "example.com">>
E_user == <<"user", "@", "example.com">>
E_nobody == <<"nobody", "@", "example.com">>
E_malformed == <<"user.example.com">>

\* new Email(emailStr) does not throw
EmailIsValid(e) == Len(e) = 3 /\ e[1] # "" /\ e[2] = "@" /\ e[3] # ""

(***************************************************************************)
(* The seeded database: the roles "admin" (every permission) and "user"    *)
(* (the default role), the administrator holding "admin", and one          *)
(* registered user holding the default role.                               *)
(***************************************************************************)
SeedRoles ==
    [rid \in RoleIds |->
        CASE rid = 1 -> RoleRow(N_admin, PermissionIds, FALSE)
          [] rid = 2 -> RoleRow(N_user, {P_userRead.id}, TRUE)
          [] OTHER -> NoRoleRow]

NoUserRow ==
    [exists |-> FALSE, email |-> <<>>, hash |-> <<>>, firstName |-> "", lastName |-> "",
     isActive |-> FALSE, otpEnabled |-> FALSE, otpSecret |-> <<>>, roleIds |-> {}]

\* UserRepository.create: the row written for a new user entity
UserRow(user) ==
    [exists |-> TRUE, email |-> user.email, hash |-> user.hash,
     firstName |-> user.firstName, lastName |-> user.lastName,
     isActive |-> user.isActive, otpEnabled |-> user.otpEnabled,
     otpSecret |-> user.otpSecret, roleIds |-> {r.id : r \in user.roles}]

SeedUsers ==
    [uid \in UserIds |->
        CASE uid = 1 -> [exists |-> TRUE, email |-> E_admin,
                         hash |-> hashPassword("Admin@123"),
                         firstName |-> "Admin", lastName |-> "User",
                         isActive |-> TRUE, otpEnabled |-> FALSE, otpSecret |-> <<>>,
                         roleIds |-> {1}]
          [] uid = 2 -> [exists |-> TRUE, email |-> E_user,
                         hash |-> hashPassword("User@1234"),
                         firstName |-> "Test", lastName |-> "User",
                         isActive |-> TRUE, otpEnabled |-> FALSE, otpSecret |-> <<>>,
                         roleIds |-> {2}]
          [] OTHER -> NoUserRow]

NoCall == [op |-> "none", err |-> "ok"]

\* the objects held in memory at the start: a user just made by User.create
\* and a role just made by Role.create, neither stored yet, and an empty
\* collection (RolesCollection.create())
NewEntities ==
    [user |-> UserCreate(3, E_nobody, hashPassword("User@1234"), "New", "User", 0),
     role |-> RoleCreate(3, N_User, FALSE, 0),
     collection |-> [class |-> "RolesCollection", items |-> <<>>]]

\* the identifiers the throttler is called with; "" is the empty identifier
ThrottleIds == {"x", "y"}

\* storage.get(identifier) is undefined
NoThrottleRecord == [present |-> FALSE, count |-> 0, ttl |-> 0]

\* no window has been opened for the identifier (see the throttler below)
NoWindow ==
    [open |-> FALSE, expiry |-> 0, calls |-> 0, limit |-> 0, mixed |-> FALSE,
     rejected |-> FALSE]

\* the two requests that can be in flight at the same time
Handlers == {1, 2}

\* no handler is running and uuidv4() has produced nothing yet
NoFlight ==
    [uuids |-> {}, spent |-> {},
     calls |-> [h \in Handlers |-> [pc |-> "idle", arg |-> "", userId |-> NoId]]]

InitTables ==
    /\ roles = SeedRoles
    /\ users = SeedUsers
    /\ refresh = {}
    /\ resets = {}
    /\ verifs = {}
    /\ otps = {}
    /\ storage = [id \in ThrottleIds \cup {""} |-> NoThrottleRecord]
    /\ now = 0
    /\ win = [id \in ThrottleIds \cup {""} |-> NoWindow]
    /\ ent = NewEntities
    /\ flight = NoFlight
    /\ last = NoCall

(***************************************************************************)
(* The inputs callers supply                                               *)
(***************************************************************************)
\* names Role.create rejects
BadRoleNames == {N_blank, N_long}

Descriptions == {<<"d">>, <<" ">>}

\* longest roleIds list given to updateUserDetails
MaxRoleList == 2

RoleIdLists == UNION {[1..n -> RoleIds] : n \in 0..MaxRoleList}

(***************************************************************************)
(* SpecRole: the calls of RoleService in any order, on the seeded database. *)
(* Roles are created under the name "User" (free), "user" (taken) and      *)
(* names Role.create rejects; permissions are changed on the               *)
(* administrator's role, which decides what deleteRole allows a deleter.   *)
(***************************************************************************)
NextRole ==
    \/ \E name \in {N_User, N_user} \cup BadRoleNames, desc \in Descriptions, d \in BOOLEAN :
         CreateRole(name, desc, d)
    \/ \E pids \in {{P_roleUpdate.id}, {P_userRead.id, NoId}}, d \in BOOLEAN :
         CreateRoleWithPermissions(N_User, <<"d">>, pids, d)
    \/ \E rid \in RoleIds, name \in {<<>>, N_admin, N_blank},
          d \in {"undef", "true", "false"} :
         UpdateRole(rid, name, <<>>, d)
    \/ \E pid \in {P_roleDelete.id, NoId} : AssignPermissionToRole(1, pid)
    \/ RemovePermissionFromRole(1, P_roleDelete.id)
    \/ \E rid \in RoleIds, deleter \in UserIds \cup {NoId} : DeleteRole(rid, deleter)

SpecRole == InitTables /\ [][NextRole]_vars

(***************************************************************************)
(* SpecRbac: the calls of UserService in any order, with roles being       *)
(* created and deleted meanwhile                                           *)
(***************************************************************************)
NextRbac ==
    \/ CreateRole(N_User, <<"d">>, FALSE)
    \/ \E rid \in RoleIds : DeleteRole(rid, NoId)
    \/ \E uid \in UserIds, rid \in RoleIds, assigner \in UserIds \cup {NoId} :
         AssignRoleToUser(uid, rid, assigner)
    \/ \E uid \in UserIds, rid \in RoleIds : RemoveRoleFromUser(uid, rid)
    \/ \E ids \in RoleIdLists, a \in {"undef", "false"} :
         \* isActive = false comes with at most one role id
         /\ (a = "false") => (Len(ids) <= 1)
         /\ UpdateUserDetails(2, [given |-> TRUE, ids |-> ids], a)
    \/ \E uid \in {2, 3}, a \in {"true", "false"} :
         UpdateUserDetails(uid, [given |-> FALSE], a)
    \/ \E uid \in UserIds : ActivateUser(uid)
    \/ \E uid \in UserIds : DeactivateUser(uid)

SpecRbac == InitTables /\ [][NextRbac]_vars

(***************************************************************************)
(* Properties of SpecRole                                                  *)
(***************************************************************************)
\* C2: after any sequence of createRole, createRoleWithPermissions and
\* updateRole calls executed one at a time, at most one stored role is the
\* default role.
C2_AtMostOneDefaultRole == Cardinality(findDefaultRole(roles)) <= 1

\* a role was created or updated as the default while another role was the
\* default, and the default passed to it
C2_DefaultHandedOver ==
    /\ last.op \in {"createRole", "createRoleWithPermissions", "updateRole"}
    /\ last.err = "ok"
    /\ last.isDefault
    /\ last.handoff
    /\ findDefaultRole(roles) = {last.rid}

\* C10: no deleteRole call, with or without a deleterId, removes a default
\* role: a call naming the default role fails and the role stays stored as
\* the default.
C10_DefaultRoleNeverDeleted ==
    (last.op = "deleteRole" /\ last.wasDefault)
        => /\ last.err # "ok"
           /\ roles[last.rid].exists
           /\ roles[last.rid].isDefault

\* deleteRole was called on the default role without a deleterId, and by the
\* administrator
C10_DeleteDefaultRefused ==
    /\ last.op = "deleteRole"
    /\ last.wasDefault
    /\ last.uid = NoId
    /\ last.err = "ForbiddenAction"

\* C17: RoleService.deleteRole on a default role surfaces the
\* CannotDeleteDefaultRole error to the caller.
C17_DeleteDefaultSurfacesCannotDelete ==
    (last.op = "deleteRole" /\ last.wasDefault) => last.err = "CannotDeleteDefaultRole"

(***************************************************************************)
(* Properties of SpecRbac                                                  *)
(***************************************************************************)
\* the user holds a role that Role.isAdminRole classifies as admin-type
HoldsAdminRole(utbl, rtbl, uid) ==
    \E rid \in utbl[uid].roleIds : isAdminRole(LoadRole(rtbl, rid))

\* C1: a user who holds no admin-type role never comes to hold one through
\* User.addRole, assignRoleToUser or updateUserDetails: for every active user
\* that is not admin-eligible, adding an admin-type role fails with
\* UserNotEligibleForRole and leaves the user's role set unchanged.
C1_AdminRoleRefusedAsNotEligible ==
    [][\A u \in UserIds :
         (/\ users[u].exists
          /\ ~HoldsAdminRole(users, roles, u)
          /\ last'.op \in {"assignRoleToUser", "updateUserDetails"}
          /\ last'.uid = u)
         => /\ ~HoldsAdminRole(users', roles', u)
            /\ (/\ users[u].isActive
                /\ last'.op = "assignRoleToUser"
                /\ last'.assigner = NoId
                /\ roles[last'.rid].exists
                /\ isAdminRole(LoadRole(roles, last'.rid)))
               => (last'.err = "UserNotEligibleForRole" /\ users' = users)
      ]_vars

\* What the code does keep of C1: no call of assignRoleToUser or
\* updateUserDetails gives an admin-type role to a user who held none, and a
\* refused call leaves the user's role set unchanged, whatever it raises.
C1_AdminRoleNeverGained ==
    [][\A u \in UserIds :
         (/\ users[u].exists
          /\ ~HoldsAdminRole(users, roles, u)
          /\ last'.op \in {"assignRoleToUser", "updateUserDetails"}
          /\ last'.uid = u)
         => /\ ~HoldsAdminRole(users', roles', u)
            /\ (last'.err # "ok") => (users' = users)
      ]_vars

\* assignRoleToUser of an admin-type role to an active user holding none was
\* refused with the exception of RolesCollection
C1_RefusedWithInvalidValueObject ==
    /\ last.op = "assignRoleToUser"
    /\ last.assigner = NoId
    /\ last.err = "InvalidValueObject"
    /\ users[last.uid].isActive
    /\ ~HoldsAdminRole(users, roles, last.uid)
    /\ isAdminRole(LoadRole(roles, last.rid))

\* what C11 requires of an authorized assignment, read off the tables: the
\* assigner is an active admin with a complete account, the target is active,
\* does not hold the role and, for an admin-type role, holds an admin-type
\* role already, and for an admin-type role the assigner holds "role:update"
MayAssign(assigner, uid, rid) ==
    /\ users[assigner].isActive
    /\ HoldsAdminRole(users, roles, assigner)
    /\ users[assigner].email # <<>>
    /\ users[uid].isActive
    /\ rid \notin users[uid].roleIds
    /\ isAdminRole(LoadRole(roles, rid))
          => /\ HoldsAdminRole(users, roles, uid)
             /\ \E r \in users[assigner].roleIds : P_roleUpdate.id \in roles[r].perms

\* C11: assignRoleToUser(userId, roleId, assignerId) with an assignerId (all
\* three stored) adds the role only if the assigner is an active admin with a
\* complete account, the target may receive the role and, for an admin-type
\* role, the assigner holds "role:update"; otherwise it raises ForbiddenAction
\* and persists no change to the target.
C11_AssignOnlyIfAuthorizedElseForbidden ==
    [][(/\ last'.op = "assignRoleToUser"
        /\ last'.assigner # NoId
        /\ users[last'.uid].exists
        /\ roles[last'.rid].exists
        /\ users[last'.assigner].exists)
       => /\ (last'.err = "ok")
               => /\ MayAssign(last'.assigner, last'.uid, last'.rid)
                  /\ users' = [users EXCEPT ![last'.uid].roleIds = @ \cup {last'.rid}]
          /\ (~MayAssign(last'.assigner, last'.uid, last'.rid))
               => (last'.err = "ForbiddenAction" /\ users' = users)
      ]_vars

\* What the code keeps of C11: the role is added only if the assignment is
\* authorized, and an unauthorized call persists no change; it is refused
\* with ForbiddenAction or with the exception RolesCollection raises.
C11_UnauthorizedAssignRefused ==
    [][(/\ last'.op = "assignRoleToUser"
        /\ last'.assigner # NoId
        /\ users[last'.uid].exists
        /\ roles[last'.rid].exists
        /\ users[last'.assigner].exists)
       => /\ (last'.err = "ok")
               => /\ MayAssign(last'.assigner, last'.uid, last'.rid)
                  /\ users' = [users EXCEPT ![last'.uid].roleIds = @ \cup {last'.rid}]
          /\ (~MayAssign(last'.assigner, last'.uid, last'.rid))
               => (last'.err \in {"ForbiddenAction", "InvalidValueObject"} /\ users' = users)
      ]_vars

\* C12: for every active user, removing the user's only role fails with
\* UserCannotRemoveLastRole and leaves the role set unchanged, and removing a
\* held role when the user holds two or more succeeds and shrinks the role
\* set by exactly that role.
C12_LastRoleKeptOthersRemoved ==
    [][(/\ last'.op = "removeRoleFromUser"
        /\ users[last'.uid].exists
        /\ users[last'.uid].isActive
        /\ last'.rid \in users[last'.uid].roleIds)
       => IF Cardinality(users[last'.uid].roleIds) = 1
          THEN last'.err = "UserCannotRemoveLastRole" /\ users' = users
          ELSE /\ last'.err = "ok"
               /\ users' = [users EXCEPT ![last'.uid].roleIds = @ \ {last'.rid}]
      ]_vars

\* an active user was refused the removal of the only role held
C12_LastRoleRefused ==
    /\ last.op = "removeRoleFromUser"
    /\ last.err = "UserCannotRemoveLastRole"
    /\ users[last.uid].isActive
    /\ users[last.uid].roleIds = {last.rid}

(***************************************************************************)
(* AuthService: refresh tokens.  The clock `now` counts minutes; a         *)
(* nullable timestamp is <<>> (null) or <<t>>.  A refresh-token row is     *)
(* [userId, token, expiresAt, revokedAt].                                  *)
(***************************************************************************)
\* token strings in UUID form, and one that is not
Uuids == {"uuid-1", "uuid-2", "uuid-3"}

TokenInputs == Uuids \cup {"not-a-uuid"}

\* Token.isValid
TokenIsValid(tok) == tok \in Uuids

\* tokenConfig.refreshExpiration: JWT_REFRESH_EXPIRATION, '7d' by default
RefreshExpirationDays == 7

DayMinutes == 24 * 60

\* new RefreshToken(userId, token, expirationDays) at time t
NewRefreshToken(uid, tok, t) ==
    [userId |-> uid, token |-> tok,
     expiresAt |-> t + RefreshExpirationDays * DayMinutes, revokedAt |-> <<>>]

\* isExpired() of Otp, RefreshToken, EmailVerification and PasswordReset
isExpired(rec, t) == t > rec.expiresAt

\* RefreshToken.isRevoked
isRevoked(rec) == rec.revokedAt # <<>>

NoRefreshToken == [userId |-> NoId, token |-> "", expiresAt |-> 0, revokedAt |-> <<>>]

\* a deleteByUserId that deletes nothing
DeleteByUserId_Nothing(tbl, uid) == tbl

\* deleteByUserId of the refresh-token and password-reset repositories
DeleteByUserId(tbl, uid) == {r \in tbl : r.userId # uid}

\* RefreshTokenRepository.findByToken: findFirst, any of the rows with the value
FindRefreshByToken(tok) == {r \in refresh : r.token = tok}

\* the clock advances by d minutes, up to the horizon
Tick(d, horizon) ==
    /\ now + d <= horizon
    /\ now' = now + d
    /\ last' = [op |-> "tick", err |-> "ok"]
    /\ UNCHANGED <<roles, users, refresh, resets, verifs, otps, storage, win, ent, flight>>

CreateRefreshToken(uid, tok) ==
    /\ UNCHANGED <<roles, users, resets, verifs, otps, storage, now, win, ent, flight>>
    /\ IF ~TokenIsValid(tok)
       THEN /\ refresh' = DeleteByUserId(refresh, uid)
            /\ last' = [op |-> "createRefreshToken", err |-> "InvalidValueObject",
                        uid |-> uid, token |-> tok]
       ELSE /\ refresh' = DeleteByUserId(refresh, uid) \cup {NewRefreshToken(uid, tok, now)}
            /\ last' = [op |-> "createRefreshToken", err |-> "ok",
                        uid |-> uid, token |-> tok]

\* a validateRefreshToken that does not look at revokedAt
ValidateRefreshToken_IgnoresRevoked(tok) ==
    /\ UNCHANGED <<roles, users, refresh, resets, verifs, otps, storage, now, win, ent, flight>>
    /\ IF FindRefreshByToken(tok) = {}
       THEN last' = [op |-> "validateRefreshToken", err |-> "Authentication",
                     token |-> tok, rec |-> NoRefreshToken]
       ELSE \E r \in FindRefreshByToken(tok) :
              IF isExpired(r, now)
              THEN last' = [op |-> "validateRefreshToken", err |-> "Authentication",
                            token |-> tok, rec |-> NoRefreshToken]
              ELSE last' = [op |-> "validateRefreshToken", err |-> "ok",
                            token |-> tok, rec |-> r]

ValidateRefreshToken(tok) ==
    /\ UNCHANGED <<roles, users, refresh, resets, verifs, otps, storage, now, win, ent, flight>>
    /\ IF FindRefreshByToken(tok) = {}
       THEN last' = [op |-> "validateRefreshToken", err |-> "Authentication",
                     token |-> tok, rec |-> NoRefreshToken]
       ELSE \E r \in FindRefreshByToken(tok) :
              IF isExpired(r, now) \/ isRevoked(r)
              THEN last' = [op |-> "validateRefreshToken", err |-> "Authentication",
                            token |-> tok, rec |-> NoRefreshToken]
              ELSE last' = [op |-> "validateRefreshToken", err |-> "ok",
                            token |-> tok, rec |-> r]

RevokeRefreshToken(tok) ==
    /\ UNCHANGED <<roles, users, resets, verifs, otps, storage, now, win, ent, flight>>
    /\ IF FindRefreshByToken(tok) = {}
       THEN /\ refresh' = refresh
            /\ last' = [op |-> "revokeRefreshToken", err |-> "Authentication", token |-> tok]
       ELSE \E r \in FindRefreshByToken(tok) :
              /\ refresh' = IF isRevoked(r) THEN refresh
                            ELSE (refresh \ {r}) \cup {[r EXCEPT !.revokedAt = <<now>>]}
              /\ last' = [op |-> "revokeRefreshToken", err |-> "ok", token |-> tok]

RevokeAllRefreshTokens(uid) ==
    /\ UNCHANGED <<roles, users, resets, verifs, otps, storage, now, win, ent, flight>>
    /\ IF ~users[uid].exists
       THEN /\ refresh' = refresh
            /\ last' = [op |-> "revokeAllRefreshTokens", err |-> "EntityNotFound", uid |-> uid]
       ELSE /\ refresh' = DeleteByUserId(refresh, uid)
            /\ last' = [op |-> "revokeAllRefreshTokens", err |-> "ok", uid |-> uid]

(***************************************************************************)
(* SpecRefresh: refresh tokens are issued to the two registered users,     *)
(* validated and revoked, while the clock advances four days at a time.    *)
(***************************************************************************)
\* how many times the clock advances
MaxDayJumps == 3

NextRefresh ==
    \/ \E uid \in {1, 2}, tok \in TokenInputs : CreateRefreshToken(uid, tok)
    \/ \E tok \in TokenInputs : ValidateRefreshToken(tok)
    \/ \E tok \in TokenInputs : RevokeRefreshToken(tok)
    \/ \E uid \in UserIds : RevokeAllRefreshTokens(uid)
    \/ Tick(4 * DayMinutes, MaxDayJumps * 4 * DayMinutes)

SpecRefresh == InitTables /\ [][NextRefresh]_vars

\* the refresh-token rows stored for a user
RefreshTokensOf(uid) == {r \in refresh : r.userId = uid}

\* C3: after every successful createRefreshToken(u, t) the only refresh token
\* stored for u is t, issued now and not revoked; a user never has two rows,
\* so a token issued to u earlier is no longer stored for u and, looked up by
\* its value, does not validate as u's.
C3_OnlyTheNewRefreshToken ==
    /\ \A u \in UserIds : Cardinality(RefreshTokensOf(u)) <= 1
    /\ (last.op = "createRefreshToken" /\ last.err = "ok")
          => /\ RefreshTokensOf(last.uid) = {NewRefreshToken(last.uid, last.token, now)}
             /\ \A tok \in Uuids \ {last.token} :
                  \A r \in FindRefreshByToken(tok) : r.userId # last.uid

\* user 1 was issued a new token while still holding the other one, which is
\* no longer stored
C3_EarlierTokenReplaced ==
    /\ last.op = "createRefreshToken"
    /\ last.err = "ok"
    /\ last.uid = 1
    /\ last.token = "uuid-2"
    /\ now > 0
    /\ FindRefreshByToken("uuid-1") = {}

\* C4: validateRefreshToken(t) returns a token record only if a stored refresh
\* token with value t exists, is not expired and is not revoked; in every
\* other case it raises AuthenticationException and returns nothing.
C4_ValidatesOnlyLiveToken ==
    (last.op = "validateRefreshToken")
       => /\ last.err \in {"ok", "Authentication"}
          /\ (last.err = "ok")
               => /\ last.rec \in refresh
                  /\ last.rec.token = last.token
                  /\ now <= last.rec.expiresAt
                  /\ last.rec.revokedAt = <<>>
          /\ (last.err # "ok") => last.rec = NoRefreshToken
          /\ (~\E r \in refresh : /\ r.token = last.token
                                  /\ now <= r.expiresAt
                                  /\ r.revokedAt = <<>>)
               => last.err = "Authentication"

\* a stored token with the value exists and is not expired, yet the call
\* fails because the token was revoked
C4_RevokedTokenRefused ==
    /\ last.op = "validateRefreshToken"
    /\ last.err = "Authentication"
    /\ \E r \in refresh : r.token = last.token /\ now <= r.expiresAt /\ r.revokedAt # <<>>

(***************************************************************************)
(* AuthService: password reset.  A password-reset row is                   *)
(* [userId, email, token, expiresAt, usedAt]; the token column is unique.  *)
(***************************************************************************)
\* createPasswordResetToken: "1-hour expiration"
PasswordResetMinutes == 60

\* new PasswordReset(userId, email, expirationMinutes) at time t, with the
\* token Token.generate() gave it
NewPasswordReset(uid, email, tok, t) ==
    [userId |-> uid, email |-> email, token |-> tok,
     expiresAt |-> t + PasswordResetMinutes, usedAt |-> <<>>]

\* PasswordReset.isUsed
isUsed(rec) == rec.usedAt # <<>>

\* PasswordReset.markAsUsed at time t
markAsUsed(rec, t) == [rec EXCEPT !.usedAt = <<t>>]

\* UserRepository.findByEmail
findByEmail(utbl, email) == {uid \in UserIds : utbl[uid].exists /\ utbl[uid].email = email}

\* PasswordResetRepository.findByToken
FindResetByToken(tok) == {r \in resets : r.token = tok}

\* tok is the value Token.generate() gives the new row: a UUID that no row kept
\* in the table has
CreatePasswordResetToken(email, tok) ==
    /\ UNCHANGED <<roles, users, refresh, verifs, otps, storage, now, win, ent, flight>>
    /\ IF ~EmailIsValid(email)
       THEN /\ resets' = resets
            /\ last' = [op |-> "createPasswordResetToken", err |-> "InvalidValueObject",
                        email |-> email, token |-> ""]
       ELSE IF findByEmail(users, email) = {}
       THEN /\ resets' = resets
            /\ last' = [op |-> "createPasswordResetToken", err |-> "EntityNotFound",
                        email |-> email, token |-> ""]
       ELSE LET uid == CHOOSE u \in findByEmail(users, email) : TRUE IN
            /\ \A r \in DeleteByUserId(resets, uid) : r.token # tok
            /\ resets' = DeleteByUserId(resets, uid)
                            \cup {NewPasswordReset(uid, email, tok, now)}
            /\ last' = [op |-> "createPasswordResetToken", err |-> "ok",
                        email |-> email, token |-> tok]

\* a validatePasswordResetToken that does not look at usedAt
validatePasswordResetToken_IgnoresUsed(tok) ==
    IF FindResetByToken(tok) = {} THEN "EntityNotFound"
    ELSE LET passwordReset == CHOOSE r \in FindResetByToken(tok) : TRUE IN
         IF isExpired(passwordReset, now) THEN "OtpExpired"
         ELSE IF ~users[passwordReset.userId].exists THEN "EntityNotFound"
         ELSE "ok"

\* validatePasswordResetToken: the exception it raises, or "ok"
validatePasswordResetToken(tok) ==
    IF FindResetByToken(tok) = {} THEN "EntityNotFound"
    ELSE LET passwordReset == CHOOSE r \in FindResetByToken(tok) : TRUE IN
         IF isExpired(passwordReset, now) THEN "OtpExpired"
         ELSE IF isUsed(passwordReset) THEN "OtpInvalid"
         ELSE IF ~users[passwordReset.userId].exists THEN "EntityNotFound"
         ELSE "ok"

\* a changePassword that keeps the old hash
changePassword_KeepsHash(user, newPasswordHash) ==
    IF newPasswordHash = <<>>
    THEN [err |-> "InvalidValueObject", user |-> user, touched |-> FALSE]
    ELSE IF ~user.isActive
    THEN [err |-> "InactiveUser", user |-> user, touched |-> FALSE]
    ELSE [err |-> "ok", user |-> user, touched |-> TRUE]

\* User.changePassword, on the user row (a hash is <<>> when empty)
changePassword(user, newPasswordHash) ==
    IF newPasswordHash = <<>>
    THEN [err |-> "InvalidValueObject", user |-> user, touched |-> FALSE]
    ELSE IF ~user.isActive
    THEN [err |-> "InactiveUser", user |-> user, touched |-> FALSE]
    ELSE [err |-> "ok", user |-> [user EXCEPT !.hash = newPasswordHash], touched |-> TRUE]

\* last records what the token's row was like when the call was made
ResetPassword(tok, newPassword) ==
    /\ UNCHANGED <<roles, verifs, otps, storage, now, win, ent, flight>>
    /\ LET found == FindResetByToken(tok)
           passwordReset == CHOOSE r \in found : TRUE
           uid == IF found = {} THEN NoId ELSE passwordReset.userId
           done(e) == last' = [op |-> "resetPassword", err |-> e, token |-> tok,
                               newPassword |-> newPassword, uid |-> uid,
                               wasUsed |-> found # {} /\ isUsed(passwordReset),
                               wasExpired |-> found # {} /\ isExpired(passwordReset, now),
                               hadRefresh |-> uid # NoId /\ DeleteByUserId(refresh, uid) # refresh]
       IN
       IF validatePasswordResetToken(tok) # "ok"
       THEN done(validatePasswordResetToken(tok)) /\ UNCHANGED <<users, resets, refresh>>
       ELSE LET res == changePassword(users[uid], newPassword) IN
            IF res.err # "ok"
            THEN done(res.err) /\ UNCHANGED <<users, resets, refresh>>
            ELSE /\ done("ok")
                 /\ users' = [users EXCEPT ![uid] = res.user]
                 /\ resets' = (resets \ {passwordReset}) \cup {markAsUsed(passwordReset, now)}
                 /\ refresh' = DeleteByUserId(refresh, uid)

(***************************************************************************)
(* UserService.validateCredentials.  fault: something underneath (the      *)
(* query, bcrypt) raises.                                                  *)
(***************************************************************************)
\* the user returned, NoId for null.  An exception raised in the try block (by
\* new Email, or underneath) is caught and null is returned.
validateCredentials(emailStr, passwordStr, fault) ==
    IF ~EmailIsValid(emailStr) \/ fault THEN NoId
    ELSE IF findByEmail(users, emailStr) = {} THEN NoId
    ELSE LET uid == CHOOSE u \in findByEmail(users, emailStr) : TRUE IN
         IF ~users[uid].isActive THEN NoId
         ELSE IF ~comparePasswords(passwordStr, users[uid].hash) THEN NoId
         ELSE uid

ValidateCredentials(emailStr, passwordStr, fault) ==
    /\ UNCHANGED <<roles, users, refresh, resets, verifs, otps, storage, now, win, ent, flight>>
    /\ last' = [op |-> "validateCredentials", err |-> "ok", email |-> emailStr,
                password |-> passwordStr, fault |-> fault,
                result |-> validateCredentials(emailStr, passwordStr, fault)]

(***************************************************************************)
(* SpecAccount: password resets are requested and consumed, refresh tokens *)
(* issued, the registered user deactivated and reactivated, credentials    *)
(* checked, while the clock advances 45 minutes at a time.                 *)
(***************************************************************************)
\* how many times the clock advances
MaxMinuteJumps == 3

NewHashes == {hashPassword("New@1234"), <<>>}

NextAccount ==
    \/ CreateRefreshToken(2, "uuid-1")
    \/ \E email \in {E_user, E_nobody, E_malformed}, tok \in Uuids :
         CreatePasswordResetToken(email, tok)
    \/ \E tok \in TokenInputs, h \in NewHashes : ResetPassword(tok, h)
    \/ \E email \in {E_user, E_nobody, E_malformed}, p \in Passwords \cup {"New@1234"},
          fault \in BOOLEAN :
         ValidateCredentials(email, p, fault)
    \/ DeactivateUser(2)
    \/ ActivateUser(2)
    \/ Tick(45, MaxMinuteJumps * 45)

SpecAccount == InitTables /\ [][NextAccount]_vars

\* C6: validateCredentials(email, password) returns the user exactly when a
\* user with that email exists, is active and the password matches the stored
\* hash (and nothing underneath raises); in every other case it returns null,
\* and it never raises.
C6_CredentialsValidExactlyWhen ==
    (last.op = "validateCredentials")
       => /\ last.err = "ok"
          /\ (last.result # NoId)
               <=> (/\ ~last.fault
                    /\ \E u \in UserIds : /\ users[u].exists
                                          /\ users[u].email = last.email
                                          /\ users[u].isActive
                                          /\ users[u].hash = hashPassword(last.password))
          /\ (last.result # NoId)
               => /\ users[last.result].exists
                  /\ users[last.result].email = last.email

\* the password set by a reset is accepted for the user, who is active
C6_NewPasswordAccepted ==
    /\ last.op = "validateCredentials"
    /\ last.result = 2
    /\ last.password = "New@1234"

\* C8 as stated: resetPassword with a reset token that was already used fails
\* with OtpInvalid, and with an expired token fails with OtpExpired; in both
\* cases the password hash, the token record and the refresh tokens are left
\* unchanged.
C8_UsedInvalidAndExpiredExpired ==
    [][(last'.op = "resetPassword")
          => /\ last'.wasUsed => last'.err = "OtpInvalid"
             /\ last'.wasExpired => last'.err = "OtpExpired"
             /\ (last'.wasUsed \/ last'.wasExpired)
                   => UNCHANGED <<users, resets, refresh>>
      ]_vars

\* C8, amended: an expired token fails with OtpExpired whether used or not, a
\* used token that has not expired fails with OtpInvalid; in both cases the
\* password hash, the token record and the refresh tokens are left unchanged.
C8_ExpiredCheckedBeforeUsed ==
    [][(last'.op = "resetPassword")
          => /\ last'.wasExpired => last'.err = "OtpExpired"
             /\ (last'.wasUsed /\ ~last'.wasExpired) => last'.err = "OtpInvalid"
             /\ (last'.wasUsed \/ last'.wasExpired)
                   => UNCHANGED <<users, resets, refresh>>
      ]_vars

\* a used token that has not expired was refused while the user held a
\* refresh token
C8_UsedTokenRefused ==
    /\ last.op = "resetPassword"
    /\ last.wasUsed
    /\ ~last.wasExpired
    /\ last.err = "OtpInvalid"
    /\ last.newPassword # <<>>
    /\ RefreshTokensOf(last.uid) # {}

\* C9: when resetPassword(token, newPassword) returns successfully, the user's
\* stored password hash is the supplied value, the reset token is marked used,
\* and no refresh token remains stored for that user.
C9_ResetAppliesAndRevokes ==
    (last.op = "resetPassword" /\ last.err = "ok")
       => /\ users[last.uid].hash = last.newPassword
          /\ \A r \in FindResetByToken(last.token) : isUsed(r) /\ r.userId = last.uid
          /\ FindResetByToken(last.token) # {}
          /\ RefreshTokensOf(last.uid) = {}

\* a reset succeeded for a user who held a refresh token
C9_ResetRevokedRefreshToken ==
    /\ last.op = "resetPassword"
    /\ last.err = "ok"
    /\ last.hadRefresh
    /\ users[last.uid].hash = hashPassword("New@1234")

(***************************************************************************)
(* AuthService: email verification codes and one-time passwords.           *)
(* An email-verification row is [email, code, expiresAt, verifiedAt], an   *)
(* OTP row [id, userId, secret, createdAt, expiresAt, verifiedAt].         *)
(***************************************************************************)
\* otpConfig.expiration: OTP_EXPIRATION, 5 minutes by default
OtpExpirationMinutes == 5

\* the six-digit codes generateEmailVerificationCode draws
Codes == {"123456", "654321"}

Secrets == {"SECRET-A", "SECRET-B"}

\* speakeasy.totp: the code of a secret changes with the time step, which is
\* shorter than a minute
Totp(secret, t) == <<secret, t>>

\* new EmailVerification(email, code, expirationMinutes) at time t
NewEmailVerification(email, code, t) ==
    [email |-> email, code |-> code, expiresAt |-> t + OtpExpirationMinutes,
     verifiedAt |-> <<>>]

\* new Otp(userId, secret, expirationMinutes) at time t
NewOtp(id, uid, secret, t) ==
    [id |-> id, userId |-> uid, secret |-> secret, createdAt |-> t,
     expiresAt |-> t + OtpExpirationMinutes, verifiedAt |-> <<>>]

\* markAsVerified of EmailVerification and Otp at time t
markAsVerified(rec, t) == [rec EXCEPT !.verifiedAt = <<t>>]

\* isVerified of EmailVerification and Otp
isVerified(rec) == rec.verifiedAt # <<>>

\* EmailVerificationRepository.findByEmailAndCode
findByEmailAndCode(email, code) == {r \in verifs : r.email = email /\ r.code = code}

\* OtpRepository.findByUserId: findFirst ordered by createdAt descending
FindOtpByUserId(uid) ==
    {r \in otps : r.userId = uid /\ \A q \in otps : q.userId = uid => q.createdAt <= r.createdAt}

\* generateEmailVerificationCode without deleteByEmail(email)
GenerateEmailVerificationCode_KeepsOld(email, code) ==
    /\ UNCHANGED <<roles, users, refresh, resets, otps, storage, now, win, ent, flight>>
    /\ IF ~EmailIsValid(email)
       THEN /\ verifs' = verifs
            /\ last' = [op |-> "generateEmailVerificationCode",
                        err |-> "InvalidValueObject", email |-> email, code |-> ""]
       ELSE /\ verifs' = verifs \cup {NewEmailVerification(email, code, now)}
            /\ last' = [op |-> "generateEmailVerificationCode", err |-> "ok",
                        email |-> email, code |-> code]

\* AuthService.generateEmailVerificationCode, with the code it draws
GenerateEmailVerificationCode(email, code) ==
    /\ UNCHANGED <<roles, users, refresh, resets, otps, storage, now, win, ent, flight>>
    /\ IF ~EmailIsValid(email)
       THEN /\ verifs' = verifs
            /\ last' = [op |-> "generateEmailVerificationCode",
                        err |-> "InvalidValueObject", email |-> email, code |-> ""]
       ELSE /\ verifs' = {r \in verifs : r.email # email}
                            \cup {NewEmailVerification(email, code, now)}
            /\ last' = [op |-> "generateEmailVerificationCode", err |-> "ok",
                        email |-> email, code |-> code]

\* AuthService.verifyEmailCode: the outcomes of the call, each with the
\* exception raised ("ok" for true), the table it leaves and whether the
\* record found had been verified before
verifyEmailCode(email, code) ==
    LET out(e, tbl, v) == [err |-> e, verifs |-> tbl, wasVerified |-> v] IN
    IF ~EmailIsValid(email) THEN {out("InvalidValueObject", verifs, FALSE)}
    ELSE IF findByEmailAndCode(email, code) = {} THEN {out("OtpInvalid", verifs, FALSE)}
    ELSE {IF isExpired(verification, now)
          THEN out("OtpExpired", verifs, isVerified(verification))
          ELSE out("ok", (verifs \ {verification}) \cup {markAsVerified(verification, now)},
                   isVerified(verification))
          : verification \in findByEmailAndCode(email, code)}

VerifyEmailCode(email, code) ==
    /\ UNCHANGED <<roles, users, refresh, resets, otps, storage, now, win, ent, flight>>
    /\ \E o \in verifyEmailCode(email, code) :
         /\ verifs' = o.verifs
         /\ last' = [op |-> "verifyEmailCode", err |-> o.err, email |-> email,
                     code |-> code, wasVerified |-> o.wasVerified]

\* the number of OTP rows kept per user in the model
MaxOtps == 2

GenerateOtp(uid, secret) ==
    /\ UNCHANGED <<roles, users, refresh, resets, verifs, storage, now, win, ent, flight>>
    /\ IF ~users[uid].exists
       THEN /\ otps' = otps
            /\ last' = [op |-> "generateOtp", err |-> "EntityNotFound", uid |-> uid,
                        token |-> <<>>]
       ELSE /\ Cardinality({r \in otps : r.userId = uid}) < MaxOtps
            /\ otps' = otps \cup {NewOtp(Cardinality(otps) + 1, uid, secret, now)}
            /\ last' = [op |-> "generateOtp", err |-> "ok", uid |-> uid,
                        token |-> Totp(secret, now)]

\* AuthService.verifyOtp: the outcomes of the call, as for verifyEmailCode
verifyOtp(uid, token) ==
    LET out(e, tbl, v) == [err |-> e, otps |-> tbl, wasVerified |-> v] IN
    IF ~users[uid].exists THEN {out("EntityNotFound", otps, FALSE)}
    ELSE IF FindOtpByUserId(uid) = {} THEN {out("EntityNotFound", otps, FALSE)}
    ELSE {IF isExpired(otp, now) THEN out("OtpExpired", otps, isVerified(otp))
          ELSE IF token = Totp(otp.secret, now)
          THEN out("ok", (otps \ {otp}) \cup {markAsVerified(otp, now)}, isVerified(otp))
          ELSE out("OtpInvalid", otps, isVerified(otp))
          : otp \in FindOtpByUserId(uid)}

VerifyOtp(uid, token) ==
    /\ UNCHANGED <<roles, users, refresh, resets, verifs, storage, now, win, ent, flight>>
    /\ \E o \in verifyOtp(uid, token) :
         /\ otps' = o.otps
         /\ last' = [op |-> "verifyOtp", err |-> o.err, uid |-> uid,
                     token |-> token, wasVerified |-> o.wasVerified]

(***************************************************************************)
(* SpecVerify: verification codes and OTPs are issued and verified while   *)
(* the clock advances three minutes at a time.                             *)
(***************************************************************************)
\* how many times the clock advances
MaxVerifyJumps == 2

NextVerify ==
    \/ \E email \in {E_user, E_malformed}, code \in Codes :
         GenerateEmailVerificationCode(email, code)
    \/ \E email \in {E_user, E_malformed}, code \in Codes : VerifyEmailCode(email, code)
    \/ \E uid \in {2, 3}, secret \in Secrets : GenerateOtp(uid, secret)
    \/ \E uid \in {2, 3}, secret \in Secrets, t \in {0, now} : VerifyOtp(uid, Totp(secret, t))
    \/ Tick(3, MaxVerifyJumps * 3)

SpecVerify == InitTables /\ [][NextVerify]_vars

\* C7: each EmailVerification record and each Otp record can be verified
\* successfully at most once: verifyEmailCode / verifyOtp on a record that is
\* already marked verified fails (with an OtpInvalid-class error) instead of
\* returning true.
C7_VerifiedAtMostOnce ==
    (last.op \in {"verifyEmailCode", "verifyOtp"} /\ last.wasVerified)
       => last.err \in {"OtpInvalid", "OtpExpired"}

(***************************************************************************)
(* ThrottlerService.  Here the clock `now` counts milliseconds.  storage   *)
(* maps an identifier to [present, count, ttl]; a ThrottleLimit is a ttl   *)
(* in seconds and a limit, both at least 1.                                *)
(*                                                                         *)
(* win is a history variable the service does not have: for each           *)
(* identifier, the window its trackRequest calls fall in (opened by the    *)
(* first call made when no window is live, closed by its expiry or by      *)
(* resetThrottling), the number of trackRequest calls made in it, the      *)
(* limit of the call that opened it, whether a call in it came with        *)
(* another limit, and whether a call in it was rejected.                   *)
(***************************************************************************)
\* a cleanup that drops every record
cleanupExpiredRecords_All(st, t) == [id \in DOMAIN st |-> NoThrottleRecord]

\* cleanupExpiredRecords
cleanupExpiredRecords(st, t) ==
    [id \in DOMAIN st |-> IF st[id].present /\ t > st[id].ttl THEN NoThrottleRecord ELSE st[id]]

\* a limit test that lets one more request through
limitReached_OneLate(record, limit) == record.count > limit

\* trackRequest: record.count >= throttleLimit.getLimit
limitReached(record, limit) == record.count >= limit

\* Math.ceil((record.ttl - now) / 1000)
secondsUntilReset(record, t) == (record.ttl - t + 999) \div 1000

WindowLive(w, t) == w.open /\ t <= w.expiry

\* the window history after a trackRequest(identifier, ttl, limit) at time t
TrackWindow(w, ttl, limit, t) ==
    IF WindowLive(w, t)
    THEN [w EXCEPT !.calls = @ + 1, !.mixed = @ \/ (limit # w.limit)]
    ELSE [open |-> TRUE, expiry |-> t + ttl * 1000, calls |-> 1, limit |-> limit,
          mixed |-> FALSE, rejected |-> FALSE]

\* a service that lets every identifier through
invalidIdentifier_Never(identifier) == FALSE

\* if (!identifier): the empty identifier (and null, which the test treats alike)
invalidIdentifier(identifier) == identifier = ""

\* trackRequest, the request counted in the live window: count + 1 and the
\* record's own ttl, with an expiry that each counted request pushes back
countedRequest_Extends(record) == [record EXCEPT !.count = @ + 1, !.ttl = @ + 1000]

\* trackRequest, the request counted in the live window
countedRequest(record) == [record EXCEPT !.count = @ + 1]

\* the trackRequest calls counted per window in the model
MaxCalls == 4

TrackRequest(identifier, ttl, limit) ==
    /\ UNCHANGED <<roles, users, refresh, resets, verifs, otps, now, ent, flight>>
    /\ IF invalidIdentifier(identifier)
       THEN /\ UNCHANGED <<storage, win>>
            /\ last' = [op |-> "trackRequest", err |-> "InvalidThrottleIdentifier",
                        id |-> identifier, limit |-> limit, seconds |-> 0,
                        afterThrottle |-> FALSE]
       ELSE /\ WindowLive(win[identifier], now) => win[identifier].calls < MaxCalls
            /\ LET cleaned == cleanupExpiredRecords(storage, now)
                   record == cleaned[identifier]
                   w == TrackWindow(win[identifier], ttl, limit, now)
                   \* the first call after the expiry of a window that rejected one
                   after == win[identifier].rejected /\ ~WindowLive(win[identifier], now)
               IN IF ~record.present \/ now > record.ttl
                  THEN /\ storage' = [cleaned EXCEPT ![identifier] =
                                         [present |-> TRUE, count |-> 1,
                                          ttl |-> now + ttl * 1000]]
                       /\ win' = [win EXCEPT ![identifier] = w]
                       /\ last' = [op |-> "trackRequest", err |-> "ok",
                                   id |-> identifier, limit |-> limit, seconds |-> 0,
                                   afterThrottle |-> after]
                  ELSE IF limitReached(record, limit)
                  THEN /\ storage' = cleaned
                       /\ win' = [win EXCEPT ![identifier] = [w EXCEPT !.rejected = TRUE]]
                       /\ last' = [op |-> "trackRequest", err |-> "Throttling",
                                   id |-> identifier, limit |-> limit,
                                   seconds |-> secondsUntilReset(record, now),
                                   afterThrottle |-> after]
                  ELSE /\ storage' = [cleaned EXCEPT ![identifier] = countedRequest(@)]
                       /\ win' = [win EXCEPT ![identifier] = w]
                       /\ last' = [op |-> "trackRequest", err |-> "ok",
                                   id |-> identifier, limit |-> limit, seconds |-> 0,
                                   afterThrottle |-> after]

IsAllowed(identifier, limit) ==
    /\ UNCHANGED <<roles, users, refresh, resets, verifs, otps, now, win, ent, flight>>
    /\ IF invalidIdentifier(identifier)
       THEN /\ storage' = storage
            /\ last' = [op |-> "isAllowed", err |-> "InvalidThrottleIdentifier",
                        id |-> identifier, limit |-> limit, result |-> FALSE]
       ELSE LET cleaned == cleanupExpiredRecords(storage, now)
                record == cleaned[identifier]
            IN /\ storage' = cleaned
               /\ last' = [op |-> "isAllowed", err |-> "ok", id |-> identifier,
                           limit |-> limit,
                           result |-> (~record.present \/ record.count < limit)]

GetRemainingRequests(identifier, limit) ==
    /\ UNCHANGED <<roles, users, refresh, resets, verifs, otps, now, win, ent, flight>>
    /\ IF invalidIdentifier(identifier)
       THEN /\ storage' = storage
            /\ last' = [op |-> "getRemainingRequests", err |-> "InvalidThrottleIdentifier",
                        id |-> identifier, limit |-> limit, remaining |-> 0,
                        afterReset |-> FALSE]
       ELSE LET cleaned == cleanupExpiredRecords(storage, now)
                record == cleaned[identifier]
                left == IF limit - record.count > 0 THEN limit - record.count ELSE 0
            IN /\ storage' = cleaned
               /\ last' = [op |-> "getRemainingRequests", err |-> "ok", id |-> identifier,
                           limit |-> limit,
                           remaining |-> IF record.present THEN left ELSE limit,
                           \* the call follows a reset of a throttled identifier
                           afterReset |-> /\ last.op = "resetThrottling"
                                          /\ last.id = identifier
                                          /\ last.wasRejected]

\* resetThrottling without storage.delete(identifier)
ResetThrottling_KeepsRecord(identifier) ==
    /\ UNCHANGED <<roles, users, refresh, resets, verifs, otps, now, ent, storage, win, flight>>
    /\ last' = [op |-> "resetThrottling",
                err |-> IF invalidIdentifier(identifier) THEN "InvalidThrottleIdentifier" ELSE "ok",
                id |-> identifier, wasRejected |-> FALSE]

ResetThrottling(identifier) ==
    /\ UNCHANGED <<roles, users, refresh, resets, verifs, otps, now, ent, flight>>
    /\ IF invalidIdentifier(identifier)
       THEN /\ UNCHANGED <<storage, win>>
            /\ last' = [op |-> "resetThrottling", err |-> "InvalidThrottleIdentifier",
                        id |-> identifier, wasRejected |-> FALSE]
       ELSE /\ storage' = [storage EXCEPT ![identifier] = NoThrottleRecord]
            /\ win' = [win EXCEPT ![identifier] = NoWindow]
            /\ last' = [op |-> "resetThrottling", err |-> "ok", id |-> identifier,
                        wasRejected |-> /\ WindowLive(win[identifier], now)
                                        /\ win[identifier].rejected]

(***************************************************************************)
(* SpecThrottle: the throttler is called for two identifiers and for the   *)
(* empty one, with a ttl of one second and limits 1 and 2, while the clock *)
(* advances 500 ms at a time, so that a call can fall exactly on a         *)
(* window's expiry.                                                        *)
(***************************************************************************)
\* how many times the clock advances
MaxMsJumps == 3

Limits == {1, 2}

NextThrottle ==
    \/ \E id \in ThrottleIds \cup {""}, limit \in Limits : TrackRequest(id, 1, limit)
    \/ \E id \in {"x", ""} : IsAllowed(id, 2)
    \/ \E id \in {"x", ""}, limit \in Limits : GetRemainingRequests(id, limit)
    \/ \E id \in ThrottleIds \cup {""} : ResetThrottling(id)
    \/ Tick(500, MaxMsJumps * 500)

SpecThrottle == InitTables /\ [][NextThrottle]_vars

\* C5: for every identifier and every fixed limit L and ttl, among the
\* trackRequest calls made inside one window (from the call that opened it
\* until its expiry) exactly the first L succeed; every further call in that
\* window fails with a Throttling error and leaves the stored count and
\* window expiry unchanged.
C5_FirstLSucceedInWindow ==
    [][(last'.op = "trackRequest" /\ last'.id # "" /\ ~win'[last'.id].mixed)
          => /\ (last'.err = "ok") <=> (win'[last'.id].calls <= last'.limit)
             /\ (last'.err = "ok")
                   => /\ storage'[last'.id].present
                      /\ storage'[last'.id].count = win'[last'.id].calls
                      /\ storage'[last'.id].ttl = win'[last'.id].expiry
             /\ (last'.err # "ok")
                   => /\ last'.err = "Throttling"
                      /\ storage'[last'.id] = storage[last'.id]
                      /\ storage'[last'.id].count = last'.limit
                      /\ storage'[last'.id].ttl = win'[last'.id].expiry
      ]_vars

\* with limit 2, the third call made in a window was rejected, after the
\* clock had advanced inside the window
C5_ThirdCallRejected ==
    /\ last.op = "trackRequest"
    /\ last.err = "Throttling"
    /\ last.limit = 2
    /\ win[last.id].calls = 3
    /\ ~win[last.id].mixed
    /\ now > 0
    /\ storage[last.id].count = 2

\* C21: an identifier that has been throttled is accepted again once its
\* window expiry has passed: the first trackRequest after the expiry succeeds
\* and opens a fresh window with count 1, and no step taken while a window is
\* live (an accepted or a rejected request included) moves its expiry.
C21_AcceptedAgainAfterExpiry ==
    [][/\ (last'.op = "trackRequest" /\ last'.id # ""
            /\ storage[last'.id].present /\ now > storage[last'.id].ttl)
          => /\ last'.err = "ok"
             /\ storage'[last'.id].present
             /\ storage'[last'.id].count = 1
             /\ storage'[last'.id].ttl = win'[last'.id].expiry
             /\ storage'[last'.id].ttl > now
             /\ win'[last'.id].calls = 1
       /\ \A id \in ThrottleIds :
             (storage[id].present /\ now <= storage[id].ttl /\ storage'[id].present)
                => storage'[id].ttl = storage[id].ttl
      ]_vars

\* an identifier rejected at its limit was accepted by its first call after the
\* window's expiry, which opened a window with count 1
C21_ThrottledThenAccepted ==
    /\ last.op = "trackRequest"
    /\ last.err = "ok"
    /\ last.afterThrottle
    /\ storage[last.id].count = 1
    /\ storage[last.id].ttl > 1000

\* C22: for every identifier whose window is live, getRemainingRequests
\* returns max(0, limit - count); it is 0 once a trackRequest has been
\* rejected (at that limit); after resetThrottling(id) it returns the full
\* limit again and the next trackRequest for id succeeds.
C22_RemainingIsLimitMinusCount ==
    [][/\ (last'.op = "getRemainingRequests" /\ last'.id # ""
            /\ storage[last'.id].present /\ now <= storage[last'.id].ttl)
          => /\ last'.err = "ok"
             /\ last'.remaining >= 0
             /\ last'.remaining >= last'.limit - storage[last'.id].count
             /\ last'.remaining \in {0, last'.limit - storage[last'.id].count}
             /\ (/\ win[last'.id].rejected
                 /\ ~win[last'.id].mixed
                 /\ win[last'.id].limit = last'.limit) => last'.remaining = 0
       /\ (last.op = "resetThrottling" /\ last.err = "ok"
            /\ last'.op = "getRemainingRequests" /\ last'.id = last.id)
          => last'.err = "ok" /\ last'.remaining = last'.limit
       /\ (last.op = "resetThrottling" /\ last.err = "ok"
            /\ last'.op = "trackRequest" /\ last'.id = last.id)
          => last'.err = "ok" /\ storage'[last'.id].count = 1
      ]_vars

\* after a rejected request and a reset, getRemainingRequests returned the
\* full limit of 2
C22_FullLimitAfterReset ==
    /\ last.op = "getRemainingRequests"
    /\ last.err = "ok"
    /\ last.afterReset
    /\ last.limit = 2
    /\ last.remaining = 2

\* C23: isAllowed, trackRequest, getRemainingRequests and resetThrottling
\* called with an empty identifier each fail with InvalidThrottleIdentifier
\* and leave the stored records unchanged; no request is ever counted under
\* the empty identifier.
C23_EmptyIdentifierRefused ==
    [][/\ (/\ last'.op \in {"isAllowed", "trackRequest", "getRemainingRequests",
                             "resetThrottling"}
            /\ last'.id = "")
          => /\ last'.err = "InvalidThrottleIdentifier"
             /\ storage' = storage
       /\ ~storage'[""].present
      ]_vars

\* trackRequest("") was refused while a record for "x" was stored
C23_EmptyTrackRefused ==
    /\ last.op = "trackRequest"
    /\ last.id = ""
    /\ last.err = "InvalidThrottleIdentifier"
    /\ storage["x"].present
    /\ storage["x"].count = 2

(***************************************************************************)
(* The User and Role objects held in memory.  A business method assigns    *)
(* `updatedAt = new Date()` exactly when it reports `touched`; the clock   *)
(* counts milliseconds here.                                               *)
(***************************************************************************)
\* User.fromData, for the object UserRepository.mapToModel built from a row
\* last written at time t
UserFromData(data, t) ==
    [id |-> data.id, email |-> data.email, hash |-> data.hash,
     firstName |-> data.firstName, lastName |-> data.lastName,
     isActive |-> data.isActive, otpEnabled |-> data.otpEnabled,
     otpSecret |-> data.otpSecret, roles |-> data.roles, updatedAt |-> t]

\* Role.fromData, likewise
RoleFromData(data, t) ==
    [id |-> data.id, name |-> data.name, perms |-> data.perms,
     isDefault |-> data.isDefault, updatedAt |-> t]

\* this._updatedAt = new Date(), when the method got that far
Stamp(obj, touched) == IF touched THEN [obj EXCEPT !.updatedAt = now] ELSE obj

\* userRepository.findById(uid): the object in hand is now that user (the
\* seeded rows were written at time 0)
FindUser(uid) ==
    /\ users[uid].exists
    /\ ent' = [ent EXCEPT !.user = UserFromData(LoadUser(users, roles, uid), 0)]
    /\ last' = [op |-> "findUser", err |-> "ok", touched |-> FALSE, arg |-> uid]
    /\ UNCHANGED <<roles, users, refresh, resets, verifs, otps, storage, now, win, flight>>

\* User.create: the object in hand is a new user
NewUser ==
    /\ ent' = [ent EXCEPT !.user = UserCreate(3, E_nobody, hashPassword("User@1234"),
                                             "New", "User", now)]
    /\ last' = [op |-> "User.create", err |-> "ok", touched |-> TRUE, arg |-> 3]
    /\ UNCHANGED <<roles, users, refresh, resets, verifs, otps, storage, now, win, flight>>

\* one business method called on the User object in hand.  `retry` records
\* the history a retry is about: for activate(), the call that had just been
\* refused with InactiveUser; for a call made right after that activate(),
\* whether it repeats the refused call.
UserMethod(method, arg) ==
    /\ UNCHANGED <<roles, users, refresh, resets, verifs, otps, storage, now, win, flight>>
    /\ LET res == CASE method = "activate" -> activate(ent.user)
                    [] method = "deactivate" -> deactivate(ent.user)
                    [] method = "enableTwoFactor" -> enableTwoFactor(ent.user, arg)
                    [] method = "disableTwoFactor" -> disableTwoFactor(ent.user)
                    [] method = "addRole" -> addRole(ent.user, arg)
                    [] method = "removeRole" -> removeRole(ent.user, arg)
                    [] method = "changeEmail" -> changeEmail(ent.user, arg)
                    [] method = "changePassword" -> changePassword(ent.user, arg)
                    [] method = "updateProfile" -> updateProfile(ent.user, arg, <<>>)
       IN /\ ent' = [ent EXCEPT !.user = Stamp(res.user, res.touched)]
          /\ last' = [op |-> method, err |-> res.err, touched |-> res.touched,
                      arg |-> arg,
                      retry |-> CASE method = "activate" /\ last.err = "InactiveUser"
                                       -> <<last.op, last.arg>>
                                  [] last.op = "activate" /\ last.retry = <<method, arg>>
                                       -> <<"again">>
                                  [] OTHER -> <<>>]

\* roleRepository.findById(rid): the object in hand is now that role
FindRole(rid) ==
    /\ roles[rid].exists
    /\ ent' = [ent EXCEPT !.role = RoleFromData(LoadRole(roles, rid), 0)]
    /\ last' = [op |-> "findRole", err |-> "ok", touched |-> FALSE, arg |-> rid]
    /\ UNCHANGED <<roles, users, refresh, resets, verifs, otps, storage, now, win, flight>>

\* Role.create: the object in hand is a new role
NewRole(name) ==
    /\ validateName(name)
    /\ ent' = [ent EXCEPT !.role = RoleCreate(3, name, FALSE, now)]
    /\ last' = [op |-> "Role.create", err |-> "ok", touched |-> TRUE, arg |-> 3]
    /\ UNCHANGED <<roles, users, refresh, resets, verifs, otps, storage, now, win, flight>>

\* one business method called on the Role object in hand
RoleMethod(method, arg) ==
    /\ UNCHANGED <<roles, users, refresh, resets, verifs, otps, storage, now, win, flight>>
    /\ LET res == CASE method = "addPermission" -> addPermission(ent.role, arg)
                    [] method = "removePermission" -> removePermission(ent.role, arg)
       IN /\ ent' = [ent EXCEPT !.role = Stamp(res.role, res.touched)]
          /\ last' = [op |-> method, err |-> res.err, touched |-> res.touched,
                      arg |-> arg]

(***************************************************************************)
(* SpecUser: every business method of a User object, made by User.create   *)
(* or loaded from the seeded database, in which RoleService creates the    *)
(* role "User" beside the seeded "user".                                   *)
(***************************************************************************)
\* how many times the clock advances
MaxUserTicks == 2

NextUser ==
    \/ CreateRole(N_User, <<"d">>, FALSE)
    \/ \E uid \in UserIds : FindUser(uid)
    \/ NewUser
    \/ \E method \in {"activate", "deactivate", "disableTwoFactor"} :
         UserMethod(method, "")
    \/ \E secret \in {"SECRET-A", " "} : UserMethod("enableTwoFactor", secret)
    \/ \E rid \in RoleIds : roles[rid].exists /\ UserMethod("addRole", LoadRole(roles, rid))
    \/ \E rid \in RoleIds : UserMethod("removeRole", rid)
    \/ UserMethod("changeEmail", E_user)
    \/ \E h \in NewHashes : UserMethod("changePassword", h)
    \/ UserMethod("updateProfile", <<"Ann">>)
    \/ Tick(1, MaxUserTicks)

SpecUser == InitTables /\ [][NextUser]_vars

\* the mutators that require an active user
GuardedMethods == {"changeEmail", "changePassword", "updateProfile", "addRole", "removeRole"}

HoldsAdminRoleObject(user) == \E r \in user.roles : isAdminRole(r)

\* C14: User.addRole(role) succeeds if and only if the user is active, does
\* not already hold the role, and either the role is not admin-type or the
\* user is admin-eligible; when it fails it raises InactiveUser,
\* UserAlreadyHasRole or UserNotEligibleForRole, matching the violated
\* condition, and the role set and updatedAt are unchanged.
C14_AddRoleIffAllowed ==
    [][(last'.op = "addRole")
       => LET user == ent.user
              role == last'.arg
              held == \E r \in user.roles : r.id = role.id
          IN /\ (last'.err = "ok")
                  <=> (/\ user.isActive
                       /\ ~held
                       /\ isAdminRole(role) => HoldsAdminRoleObject(user))
             /\ (last'.err = "ok")
                  => ent'.user = [user EXCEPT !.roles = @ \cup {role}, !.updatedAt = now]
             /\ (last'.err # "ok")
                  => /\ ent' = ent
                     /\ last'.err = (IF ~user.isActive THEN "InactiveUser"
                                     ELSE IF held THEN "UserAlreadyHasRole"
                                     ELSE "UserNotEligibleForRole")
      ]_vars

\* What the code keeps of C14: the same, except that a user who is not
\* admin-eligible is refused an admin-type role with either
\* UserNotEligibleForRole or the exception RolesCollection raises.
C14_AddRoleIffAllowedAnyRefusal ==
    [][(last'.op = "addRole")
       => LET user == ent.user
              role == last'.arg
              held == \E r \in user.roles : r.id = role.id
          IN /\ (last'.err = "ok")
                  <=> (/\ user.isActive
                       /\ ~held
                       /\ isAdminRole(role) => HoldsAdminRoleObject(user))
             /\ (last'.err = "ok")
                  => ent'.user = [user EXCEPT !.roles = @ \cup {role}, !.updatedAt = now]
             /\ (last'.err # "ok")
                  => /\ ent' = ent
                     /\ last'.err \in (IF ~user.isActive THEN {"InactiveUser"}
                                       ELSE IF held THEN {"UserAlreadyHasRole"}
                                       ELSE {"UserNotEligibleForRole", "InvalidValueObject"})
      ]_vars

\* C16: activate() on an already-active user, deactivate() on an
\* already-inactive user and disableTwoFactor() when two-factor is already
\* disabled raise nothing and leave every field of the user, updatedAt
\* included, unchanged; applying any of them twice has the same result as
\* applying it once.
C16_NoOpWhenAlreadyThere ==
    [][/\ (last'.op = "activate" /\ ent.user.isActive)
          => (last'.err = "ok" /\ ent' = ent)
       /\ (last'.op = "deactivate" /\ ~ent.user.isActive)
          => (last'.err = "ok" /\ ent' = ent)
       /\ (last'.op = "disableTwoFactor" /\ ~ent.user.otpEnabled)
          => (last'.err = "ok" /\ ent' = ent)
       /\ (/\ last'.op \in {"activate", "deactivate", "disableTwoFactor"}
           /\ last.op = last'.op)
          => (last'.err = "ok" /\ ent' = ent)
      ]_vars

\* activate() was called on an active user at a later time than the user was
\* last modified, and updatedAt has not moved
C16_ActivateLeftUpdatedAt ==
    /\ last.op = "activate"
    /\ ~last.touched
    /\ ent.user.isActive
    /\ ent.user.updatedAt < now

(***************************************************************************)
(* SpecObjects: the role set of a User object and the permission set of a  *)
(* Role object change through addRole / removeRole and addPermission /     *)
(* removePermission.  The objects are made by the factories or loaded from *)
(* the seeded database.                                                    *)
(***************************************************************************)
\* how many times the clock advances
MaxObjectTicks == 1

NextObjects ==
    \/ \E uid \in UserIds : FindUser(uid)
    \/ NewUser
    \/ \E rid \in RoleIds : roles[rid].exists /\ UserMethod("addRole", LoadRole(roles, rid))
    \/ \E rid \in RoleIds : UserMethod("removeRole", rid)
    \/ \E rid \in RoleIds : FindRole(rid)
    \/ \E name \in {N_User, N_administrator} : NewRole(name)
    \/ \E p \in Permissions : RoleMethod("addPermission", p)
    \/ \E pid \in PermissionIds : RoleMethod("removePermission", pid)
    \/ Tick(1, MaxObjectTicks)

SpecObjects == InitTables /\ [][NextObjects]_vars

\* C15: User.removeRole with a role id the user does not hold, and
\* Role.removePermission with a permission id the role does not hold, are
\* no-ops for every active user and every role: they raise nothing and leave
\* the role / permission set and updatedAt unchanged, whatever the number of
\* roles the user holds.
C15_RemovingAbsentIsNoOp ==
    [][/\ (/\ last'.op = "removeRole"
           /\ ent.user.isActive
           /\ ~\E r \in ent.user.roles : r.id = last'.arg)
          => (last'.err = "ok" /\ ent' = ent)
       /\ (/\ last'.op = "removePermission"
           /\ ~\E q \in ent.role.perms : q.id = last'.arg)
          => (last'.err = "ok" /\ ent' = ent)
      ]_vars

\* What the code keeps of C15: removing an absent id never changes the
\* object; it raises nothing for a role, and nothing for an active user who
\* holds two or more roles.
C15_RemovingAbsentChangesNothing ==
    [][/\ (/\ last'.op = "removeRole"
           /\ ent.user.isActive
           /\ ~\E r \in ent.user.roles : r.id = last'.arg)
          => /\ ent' = ent
             /\ last'.err = IF Cardinality(ent.user.roles) >= 2
                            THEN "ok" ELSE "UserCannotRemoveLastRole"
       /\ (/\ last'.op = "removePermission"
           /\ ~\E q \in ent.role.perms : q.id = last'.arg)
          => (last'.err = "ok" /\ ent' = ent)
      ]_vars

\* C18: Role.addPermission(p) fails with PermissionAlreadyAssigned, leaving
\* the role's permissions and updatedAt unchanged, exactly when p is already
\* held by the role or p is a create/update/delete permission on user, role,
\* permission or system and the role is not admin-type; in every other case
\* it appends p to the role.
C18_AddPermissionRefusedExactlyWhen ==
    [][(last'.op = "addPermission")
       => LET role == ent.role
              p == last'.arg
              refused ==
                  \/ p \in role.perms
                  \/ /\ p.resource \in {"user", "role", "permission", "system"}
                     /\ p.action \in {"create", "update", "delete"}
                     /\ ~isAdminRole(role)
          IN IF refused
             THEN last'.err = "PermissionAlreadyAssigned" /\ ent' = ent
             ELSE /\ last'.err = "ok"
                  /\ ent'.role = [role EXCEPT !.perms = @ \cup {p}, !.updatedAt = now]
                  /\ ent'.user = ent.user
      ]_vars

\* a role that is not admin-type was refused "role:update", which it does
\* not hold
C18_AdminPermissionRefused ==
    /\ last.op = "addPermission"
    /\ last.err = "PermissionAlreadyAssigned"
    /\ last.arg = P_roleUpdate
    /\ last.arg \notin ent.role.perms
    /\ ~isAdminRole(ent.role)

(***************************************************************************)
(* Registration and two-factor setup.  A password given to createUser is a *)
(* sequence of characters; the Password value object accepts it when it    *)
(* has the minimum length and a lowercase letter, an uppercase letter, a   *)
(* digit and a symbol.                                                     *)
(***************************************************************************)
MinPasswordLength == 8

\* new Password(passwordStr) does not throw (on the characters used here)
PasswordIsValid(p) ==
    /\ Len(p) >= MinPasswordLength
    /\ \E i \in 1..Len(p) : p[i] \in {"a", "d", "o", "p", "r", "s", "w"}
    /\ \E i \in 1..Len(p) : p[i] \in {"P"}
    /\ \E i \in 1..Len(p) : p[i] \in {"1", "2", "3"}
    /\ \E i \in 1..Len(p) : p[i] \in {"!", "@"}

\* "Password123!", which the value object accepts, and "password", which it
\* rejects
NewPasswords ==
    {<<"P", "a", "s", "s", "w", "o", "r", "d", "1", "2", "3", "!">>,
     <<"p", "a", "s", "s", "w", "o", "r", "d">>}

\* createUser, "Assign default role": the outcomes of addRole on the new user
\* (findDefaultRole returns any one default row), or the user as it is
AttachDefaultRole(user, tbl) ==
    IF findDefaultRole(tbl) = {}
    THEN {[err |-> "ok", user |-> user, touched |-> FALSE]}
    ELSE {addRole(user, LoadRole(tbl, d)) : d \in findDefaultRole(tbl)}

\* the new user takes an unused id; names are "New" "User"
CreateUser(emailStr, passwordStr) ==
    /\ UNCHANGED <<roles, refresh, resets, verifs, otps, storage, now, win, ent, flight>>
    /\ LET fail(e) == /\ users' = users
                      /\ last' = [op |-> "createUser", err |-> e, email |-> emailStr,
                                  password |-> passwordStr, uid |-> NoId]
       IN
       IF ~EmailIsValid(emailStr) \/ ~PasswordIsValid(passwordStr)
       THEN fail("InvalidValueObject")
       ELSE IF findByEmail(users, emailStr) # {} THEN fail("EntityAlreadyExists")
       ELSE /\ \E u \in UserIds : ~users[u].exists
            /\ LET uid == CHOOSE u \in UserIds : ~users[u].exists
                   user == UserCreate(uid, emailStr, hashPassword(passwordStr),
                                      "New", "User", now)
               IN \E res \in AttachDefaultRole(user, roles) :
                    IF res.err # "ok" THEN fail(res.err)
                    ELSE /\ users' = [users EXCEPT ![uid] = UserRow(res.user)]
                         /\ last' = [op |-> "createUser", err |-> "ok",
                                     email |-> emailStr, password |-> passwordStr,
                                     uid |-> uid]

\* secret is what speakeasy.generateSecret returned
SetupTwoFactorAuth(uid, secret) ==
    /\ UNCHANGED <<roles, refresh, resets, verifs, otps, storage, now, win, ent, flight>>
    /\ IF ~users[uid].exists
       THEN /\ users' = users
            /\ last' = [op |-> "setupTwoFactorAuth", err |-> "EntityNotFound", uid |-> uid]
       ELSE LET res == enableTwoFactor(LoadUser(users, roles, uid), secret) IN
            /\ users' = IF res.err = "ok" THEN SaveUser(users, res.user) ELSE users
            /\ last' = [op |-> "setupTwoFactorAuth", err |-> res.err, uid |-> uid]

DisableTwoFactorAuth(uid) ==
    /\ UNCHANGED <<roles, refresh, resets, verifs, otps, storage, now, win, ent, flight>>
    /\ IF ~users[uid].exists
       THEN /\ users' = users
            /\ last' = [op |-> "disableTwoFactorAuth", err |-> "EntityNotFound", uid |-> uid]
       ELSE LET res == disableTwoFactor(LoadUser(users, roles, uid)) IN
            /\ users' = SaveUser(users, res.user)
            /\ last' = [op |-> "disableTwoFactorAuth", err |-> res.err, uid |-> uid]

(***************************************************************************)
(* SpecRegistration: users register while the default role is moved        *)
(* between the seeded roles or removed, two-factor authentication is set   *)
(* up and disabled, and the registered user is deactivated and activated.  *)
(***************************************************************************)
NextRegistration ==
    \/ \E email \in {E_nobody, E_user, E_malformed}, p \in NewPasswords :
         CreateUser(email, p)
    \/ \E rid \in {1, 2}, d \in {"true", "false"} : UpdateRole(rid, <<>>, <<>>, d)
    \/ \E uid \in UserIds, secret \in Secrets : SetupTwoFactorAuth(uid, secret)
    \/ \E uid \in UserIds : DisableTwoFactorAuth(uid)
    \/ DeactivateUser(2)
    \/ ActivateUser(2)

SpecRegistration == InitTables /\ [][NextRegistration]_vars

\* C19: after User.create and any sequence of enableTwoFactor /
\* disableTwoFactor calls, successful or failed (made through
\* setupTwoFactorAuth and disableTwoFactorAuth), the user's otpSecret is
\* present if and only if otpEnabled is true; enableTwoFactor succeeds only
\* for an active user and a non-empty secret.
C19_SecretPresentIffEnabled ==
    /\ \A u \in UserIds :
         users[u].exists => ((users[u].otpSecret # <<>>) <=> users[u].otpEnabled)
    /\ (last.op = "setupTwoFactorAuth" /\ last.err = "ok")
          => (users[last.uid].isActive /\ users[last.uid].otpSecret # <<>>)

\* What the code keeps of C19: on the User object in memory (SpecUser) the
\* secret is present exactly when two-factor is enabled, and enableTwoFactor
\* succeeds only for an active user and a non-blank secret.
C19_ObjectSecretIffEnabled ==
    /\ (ent.user.otpSecret # <<>>) <=> ent.user.otpEnabled
    /\ (last.op = "enableTwoFactor" /\ last.err = "ok")
          => (ent.user.isActive /\ last.arg \notin {"", " "} /\ ent.user.otpSecret = <<last.arg>>)
    /\ (last.op = "enableTwoFactor" /\ last.err # "ok") => ~last.touched

\* C20: for every well-formed email not used by any stored user and every
\* password meeting the strength rules, createUser succeeds and persists an
\* active user whose role set is exactly the current default role when one
\* exists and empty otherwise; with an email already in use it fails with
\* EntityAlreadyExists and persists nothing.
C20_CreateUserAttachesDefaultRole ==
    [][(/\ last'.op = "createUser"
        /\ EmailIsValid(last'.email)
        /\ PasswordIsValid(last'.password))
       => IF findByEmail(users, last'.email) # {}
          THEN last'.err = "EntityAlreadyExists" /\ users' = users
          ELSE /\ last'.err = "ok"
               /\ ~users[last'.uid].exists
               /\ users'[last'.uid].exists
               /\ users'[last'.uid].email = last'.email
               /\ users'[last'.uid].isActive
               /\ users'[last'.uid].roleIds = findDefaultRole(roles)
               /\ \A u \in UserIds \ {last'.uid} : users'[u] = users[u]
      ]_vars

\* What the code keeps of C20: the same when the default role is not
\* admin-type; with an admin-type default role createUser fails with
\* UserNotEligibleForRole and persists nothing.
C20_CreateUserUnlessAdminDefault ==
    [][(/\ last'.op = "createUser"
        /\ EmailIsValid(last'.email)
        /\ PasswordIsValid(last'.password))
       => IF findByEmail(users, last'.email) # {}
          THEN last'.err = "EntityAlreadyExists" /\ users' = users
          ELSE IF \E d \in findDefaultRole(roles) : isAdminRole(LoadRole(roles, d))
          THEN last'.err = "UserNotEligibleForRole" /\ users' = users
          ELSE /\ last'.err = "ok"
               /\ ~users[last'.uid].exists
               /\ users'[last'.uid].exists
               /\ users'[last'.uid].email = last'.email
               /\ users'[last'.uid].isActive
               /\ users'[last'.uid].roleIds = findDefaultRole(roles)
               /\ \A u \in UserIds \ {last'.uid} : users'[u] = users[u]
      ]_vars

(***************************************************************************)
(* The command handlers that issue tokens: LoginCommand, RefreshToken-     *)
(* Command, VerifyOtpCommand and VerifyEmailCommand.  A handler that       *)
(* succeeds signs an access token over a payload and stores a refresh      *)
(* token whose value uuidv4() has generated; flight.uuids are the values   *)
(* generated so far (uuidv4 does not repeat one), flight.spent the refresh *)
(* tokens a RefreshTokenCommand has succeeded with.  updateLastLogin       *)
(* writes lastLoginAt and updatedAt only, which the user rows of the model *)
(* do not hold.                                                            *)
(***************************************************************************)
\* every email address counts as verified
isEmailVerified_Always(email) == TRUE

\* AuthService.isEmailVerified: an exception underneath gives false
isEmailVerified(email) ==
    EmailIsValid(email) /\ \E verification \in verifs :
                             verification.email = email /\ isVerified(verification)

\* the handlers' loop over user.roles: the names of the permissions of the
\* roles, as RoleRepository.findById returns them
userPermissions(user) ==
    {getPermissionName(p) : p \in UNION {LoadRole(roles, r.id).perms : r \in user.roles}}

\* TokenProvider.buildPayload, and the payload literal of RefreshTokenCommand
\* and VerifyEmailCommand
buildPayload(user, permissions, emailVerified) ==
    [sub |-> user.id, email |-> user.email, emailVerified |-> emailVerified,
     roles |-> {r.name : r \in user.roles}, permissions |-> permissions]

\* the handler raises e (or, for e = "ok", returns a response without tokens)
\* after leaving the tables as given
NoTokens(op, e, uid, arg) ==
    /\ flight' = flight
    /\ last' = [op |-> op, err |-> e, issued |-> FALSE, uid |-> uid, arg |-> arg,
                payload |-> [sub |-> NoId], refreshToken |-> ""]

\* jwtService.sign(payload), uuidv4() and createRefreshToken(user.id, uuid),
\* on the refresh-token table tbl
IssueTokens(op, user, payload, tbl, arg, spent) ==
    \E uuid \in Uuids \ flight.uuids :
       /\ refresh' = DeleteByUserId(tbl, user.id) \cup {NewRefreshToken(user.id, uuid, now)}
       /\ flight' = [flight EXCEPT !.uuids = @ \cup {uuid}, !.spent = @ \cup spent]
       /\ last' = [op |-> op, err |-> "ok", issued |-> TRUE, uid |-> user.id, arg |-> arg,
                   payload |-> payload, refreshToken |-> uuid]

LoginCommand(email, password) ==
    /\ UNCHANGED <<roles, users, resets, verifs, otps, storage, now, win, ent>>
    /\ LET uid == validateCredentials(email, password, FALSE)
           user == LoadUser(users, roles, uid)
           loginDto == <<email, password>>
       IN IF uid = NoId
          THEN NoTokens("LoginCommand", "Unauthorized", NoId, loginDto) /\ refresh' = refresh
          ELSE IF ~isEmailVerified(email)
          THEN NoTokens("LoginCommand", "requiresEmailVerification", uid, loginDto)
               /\ refresh' = refresh
          ELSE IF user.otpEnabled
          THEN NoTokens("LoginCommand", "requiresOtp", uid, loginDto) /\ refresh' = refresh
          ELSE IssueTokens("LoginCommand", user,
                           buildPayload(user, userPermissions(user), TRUE),
                           refresh, loginDto, {})

RefreshTokenCommand(refreshToken) ==
    /\ UNCHANGED <<roles, users, resets, verifs, otps, storage, now, win, ent>>
    /\ IF FindRefreshByToken(refreshToken) = {}
       THEN NoTokens("RefreshTokenCommand", "Authentication", NoId, refreshToken)
            /\ refresh' = refresh
       ELSE \E token \in FindRefreshByToken(refreshToken) :
              IF isExpired(token, now) \/ isRevoked(token)
              THEN NoTokens("RefreshTokenCommand", "Authentication", NoId, refreshToken)
                   /\ refresh' = refresh
              ELSE IF ~users[token.userId].exists
              THEN NoTokens("RefreshTokenCommand", "Unauthorized", NoId, refreshToken)
                   /\ refresh' = refresh
              ELSE LET user == LoadUser(users, roles, token.userId) IN
                   IssueTokens("RefreshTokenCommand", user,
                               buildPayload(user, userPermissions(user),
                                            isEmailVerified(user.email)),
                               (refresh \ {token}) \cup {[token EXCEPT !.revokedAt = <<now>>]},
                               refreshToken, {refreshToken})

VerifyOtpCommand(userId, otp) ==
    /\ UNCHANGED <<roles, users, resets, verifs, storage, now, win, ent>>
    /\ \E o \in verifyOtp(userId, otp) :
         /\ otps' = o.otps
         /\ IF o.err # "ok"
            THEN NoTokens("VerifyOtpCommand", o.err, NoId, userId) /\ refresh' = refresh
            ELSE LET user == LoadUser(users, roles, userId) IN
                 IssueTokens("VerifyOtpCommand", user,
                             [sub |-> user.id, email |-> user.email,
                              roles |-> {r.name : r \in user.roles}],
                             refresh, userId, {})

VerifyEmailCommand(email, code) ==
    /\ UNCHANGED <<roles, users, resets, otps, storage, now, win, ent>>
    /\ \E o \in verifyEmailCode(email, code) :
         /\ verifs' = o.verifs
         /\ IF o.err # "ok"
            THEN NoTokens("VerifyEmailCommand", o.err, NoId, email) /\ refresh' = refresh
            ELSE IF findByEmail(users, email) = {}
            THEN NoTokens("VerifyEmailCommand", "Unauthorized", NoId, email)
                 /\ refresh' = refresh
            ELSE LET user == LoadUser(users, roles,
                                      CHOOSE u \in findByEmail(users, email) : TRUE) IN
                 IssueTokens("VerifyEmailCommand", user,
                             buildPayload(user, userPermissions(user), TRUE),
                             refresh, email, {})

(***************************************************************************)
(* SpecSession: the registered user verifies the email address, logs in,   *)
(* refreshes the tokens and verifies one-time codes, while two-factor      *)
(* authentication is set up for the user, who is also deactivated and      *)
(* activated again; the clock advances eight days at                       *)
(* a time, past the expiry of the refresh tokens issued before.            *)
(***************************************************************************)
\* how many times the clock advances
MaxSessionJumps == 1

NextSession ==
    \/ GenerateEmailVerificationCode(E_user, "123456")
    \/ \E email \in {E_user, E_nobody} : VerifyEmailCommand(email, "123456")
    \/ \E password \in Passwords : LoginCommand(E_user, password)
    \/ \E refreshToken \in TokenInputs : RefreshTokenCommand(refreshToken)
    \/ GenerateOtp(2, "SECRET-A")
    \/ \E secret \in Secrets : VerifyOtpCommand(2, Totp(secret, now))
    \/ SetupTwoFactorAuth(2, "SECRET-A")
    \/ DeactivateUser(2)
    \/ ActivateUser(2)
    \/ Tick(8 * DayMinutes, MaxSessionJumps * 8 * DayMinutes)

SpecSession == InitTables /\ [][NextSession]_vars

\* the names of the handlers that return tokens
TokenCommands ==
    {"LoginCommand", "RefreshTokenCommand", "VerifyOtpCommand", "VerifyEmailCommand"}

\* C24: every access token issued by login, token refresh, OTP verification
\* and email verification is signed over a payload with the same five fields
\* sub, email, emailVerified, roles and permissions, where permissions is the
\* union of the permission names of all the user's roles.
C24_PayloadHasFiveFields ==
    (last.op \in TokenCommands /\ last.issued)
       => /\ DOMAIN last.payload = {"sub", "email", "emailVerified", "roles", "permissions"}
          /\ last.payload.sub = last.uid
          /\ last.payload.permissions
                = {getPermissionName(PermissionById(pid)) :
                     pid \in UNION {roles[rid].perms : rid \in users[last.uid].roleIds}}

\* the same for the three handlers other than VerifyOtpCommand
C24_PayloadHasFiveFieldsButOtp ==
    (last.op \in TokenCommands \ {"VerifyOtpCommand"} /\ last.issued)
       => /\ DOMAIN last.payload = {"sub", "email", "emailVerified", "roles", "permissions"}
          /\ last.payload.sub = last.uid
          /\ last.payload.email = users[last.uid].email
          /\ last.payload.roles = {roles[rid].name : rid \in users[last.uid].roleIds}
          /\ last.payload.permissions
                = {getPermissionName(PermissionById(pid)) :
                     pid \in UNION {roles[rid].perms : rid \in users[last.uid].roleIds}}

\* C25: a user with otpEnabled = true cannot obtain an access/refresh token
\* pair without a successful one-time-code verification: neither LoginCommand
\* nor VerifyEmailCommand issues tokens for such a user.
C25_NoTokensWithoutOtp ==
    (last.op \in {"LoginCommand", "VerifyEmailCommand"} /\ last.issued)
       => ~users[last.uid].otpEnabled

\* LoginCommand answers requiresOtp, without tokens, for such a user
C25_LoginAsksForOtp ==
    (last.op = "LoginCommand" /\ last.uid # NoId /\ users[last.uid].otpEnabled)
       => (~last.issued /\ last.err \in {"requiresOtp", "requiresEmailVerification"})

\* C26: once UserService.deactivateUser(u) has completed, no command issues a
\* new access token or refresh token for u until u is activated again: not
\* login, not token refresh with a refresh token issued earlier, not OTP
\* verification and not email verification.
C26_NoTokensWhileDeactivated ==
    (last.op \in TokenCommands /\ last.issued) => users[last.uid].isActive

\* LoginCommand refuses a deactivated user
C26_LoginRefusesDeactivated ==
    (last.op = "LoginCommand" /\ last.issued) => users[last.uid].isActive

(***************************************************************************)
(* SpecRotation: the registered user and the administrator verify their    *)
(* email addresses, log in and refresh their tokens, one handler at a      *)
(* time, while the clock advances four days at a time: a refresh token     *)
(* expires after seven.                                                    *)
(***************************************************************************)
\* how many times the clock advances
MaxRotationJumps == 2

NextRotation ==
    \/ \E email \in {E_user, E_admin} : GenerateEmailVerificationCode(email, "123456")
    \/ \E email \in {E_user, E_admin} : VerifyEmailCommand(email, "123456")
    \/ \E email \in {E_user, E_admin} : LoginCommand(email, "User@1234")
    \/ \E refreshToken \in TokenInputs : RefreshTokenCommand(refreshToken)
    \/ Tick(4 * DayMinutes, MaxRotationJumps * 4 * DayMinutes)

SpecRotation == InitTables /\ [][NextRotation]_vars

\* the refresh-token values that validateRefreshToken accepts as the user's
ValidatingTokens(tbl, uid) ==
    {r.token : r \in {q \in tbl : q.userId = uid /\ ~isExpired(q, now) /\ ~isRevoked(q)}}

\* C29: after a RefreshTokenCommand succeeds with refresh token T, T is never
\* accepted again: every later refresh presenting T fails, and the refresh
\* token returned by that command is the only one that validates for the
\* user.
C29_SpentTokenNeverAccepted ==
    [][/\ (last'.op = "RefreshTokenCommand" /\ last'.arg \in flight.spent)
          => (~last'.issued /\ last'.err = "Authentication")
       /\ (last'.op = "RefreshTokenCommand" /\ last'.issued)
          => /\ last'.refreshToken # last'.arg
             /\ ValidatingTokens(refresh', last'.uid) = {last'.refreshToken}
       /\ \A T \in flight'.spent : \A u \in UserIds : T \notin ValidatingTokens(refresh', u)
      ]_vars

\* the token a refresh had succeeded with was presented again and refused,
\* while the token that refresh returned validates
C29_SpentTokenRefused ==
    /\ last.op = "RefreshTokenCommand"
    /\ last.arg \in flight.spent
    /\ last.err = "Authentication"
    /\ \E u \in UserIds : ValidatingTokens(refresh, u) # {}

(***************************************************************************)
(* RefreshTokenCommandHandler.execute, one repository call at a time.      *)
(* flight.calls[h] is the execution h: where it stands (pc), the refresh   *)
(* token presented (arg) and the user of the token it validated.  Two      *)
(* executions interleave at their awaits; the calls that only read roles   *)
(* and email verifications are left out.                                   *)
(***************************************************************************)
\* the execution h moves on, or ends, leaving the refresh-token table tbl
RefreshStep(h, pc, e, arg, userId, tbl, uuids) ==
    /\ refresh' = tbl
    /\ flight' = [flight EXCEPT !.calls[h] = [pc |-> pc, arg |-> arg, userId |-> userId],
                                !.uuids = @ \cup uuids]
    /\ last' = [op |-> "RefreshTokenCommand", err |-> e, step |-> pc, handler |-> h]
    /\ UNCHANGED <<roles, users, resets, verifs, otps, storage, now, win, ent>>

\* authService.validateRefreshToken(refreshToken)
RefreshValidate(h, refreshToken) ==
    /\ flight.calls[h].pc = "idle"
    /\ IF FindRefreshByToken(refreshToken) = {}
       THEN RefreshStep(h, "failed", "Authentication", refreshToken, NoId, refresh, {})
       ELSE \E token \in FindRefreshByToken(refreshToken) :
              IF isExpired(token, now) \/ isRevoked(token)
              THEN RefreshStep(h, "failed", "Authentication", refreshToken, NoId, refresh, {})
              ELSE RefreshStep(h, "validated", "ok", refreshToken, token.userId, refresh, {})

\* userRepository.findById and authService.revokeRefreshToken(refreshToken)
RefreshRevoke(h) ==
    LET call == flight.calls[h] IN
    /\ call.pc = "validated"
    /\ IF ~users[call.userId].exists
       THEN RefreshStep(h, "failed", "Unauthorized", call.arg, call.userId, refresh, {})
       ELSE IF FindRefreshByToken(call.arg) = {}
       THEN RefreshStep(h, "failed", "Authentication", call.arg, call.userId, refresh, {})
       ELSE \E token \in FindRefreshByToken(call.arg) :
              RefreshStep(h, "revoked", "ok", call.arg, call.userId,
                          IF isRevoked(token) THEN refresh
                          ELSE (refresh \ {token}) \cup {[token EXCEPT !.revokedAt = <<now>>]},
                          {})

\* createRefreshToken: refreshTokenRepository.deleteByUserId(userId)
RefreshDelete(h) ==
    LET call == flight.calls[h] IN
    /\ call.pc = "revoked"
    /\ RefreshStep(h, "deleted", "ok", call.arg, call.userId,
                   DeleteByUserId(refresh, call.userId), {})

\* createRefreshToken: refreshTokenRepository.create(new RefreshToken(uuidv4())),
\* and the handler returns the pair
RefreshCreate(h) ==
    LET call == flight.calls[h] IN
    /\ call.pc = "deleted"
    /\ \E uuid \in Uuids \ flight.uuids :
         RefreshStep(h, "returned", "ok", call.arg, call.userId,
                     refresh \cup {NewRefreshToken(call.userId, uuid, now)}, {uuid})

(***************************************************************************)
(* SpecRace: the registered user obtains a refresh token by verifying the  *)
(* email address, and two RefreshTokenCommand executions run, each once,   *)
(* interleaved at their repository calls.                                  *)
(***************************************************************************)
NextRace ==
    \/ GenerateEmailVerificationCode(E_user, "123456")
    \/ VerifyEmailCommand(E_user, "123456")
    \/ \E h \in Handlers, refreshToken \in TokenInputs : RefreshValidate(h, refreshToken)
    \/ \E h \in Handlers : RefreshRevoke(h)
    \/ \E h \in Handlers : RefreshDelete(h)
    \/ \E h \in Handlers : RefreshCreate(h)

SpecRace == InitTables /\ [][NextRace]_vars

\* C27: when two RefreshTokenCommand executions presenting the same refresh
\* token are interleaved at their repository calls, at most one of them
\* returns a new access/refresh token pair.
C27_AtMostOneRefreshReturns ==
    \A T \in Uuids :
       Cardinality({h \in Handlers : /\ flight.calls[h].pc = "returned"
                                     /\ flight.calls[h].arg = T}) <= 1

\* an execution that starts after another one has revoked the token is refused
C27_RefusedAfterRevoke ==
    [][\A h \in Handlers, g \in Handlers :
         (/\ flight.calls[h].pc = "idle"
          /\ flight'.calls[h].pc # "idle"
          /\ flight.calls[g].pc \in {"revoked", "deleted", "returned"}
          /\ flight'.calls[h].arg = flight.calls[g].arg)
            => flight'.calls[h].pc = "failed"
      ]_vars

(***************************************************************************)
(* RoleService.updateRole(id, isDefault = true) and createRole(name,       *)
(* description, isDefault = true), from one await to the next.  The        *)
(* execution h keeps the Role object it works on, loaded or about to be    *)
(* created, in flight.calls[h].role; findDefaultRole and the update of the *)
(* role it finds are one step.                                             *)
(***************************************************************************)
\* the execution h moves on, or ends, leaving the role table tbl
RoleStep(h, pc, e, call, tbl) ==
    /\ roles' = tbl
    /\ flight' = [flight EXCEPT !.calls[h] = [call EXCEPT !.pc = pc]]
    /\ last' = [op |-> call.kind, err |-> e, step |-> pc, handler |-> h]
    /\ UNCHANGED <<users, refresh, resets, verifs, otps, storage, now, win, ent>>

\* updateRole: roleRepository.findById(id); createRole: findByName(name)
RoleRequest(h, kind, arg) ==
    LET call(role) == [pc |-> "idle", arg |-> arg, userId |-> NoId, kind |-> kind,
                       role |-> role]
    IN /\ flight.calls[h].pc = "idle"
       /\ IF kind = "updateRole"
          THEN IF ~roles[arg].exists
               THEN RoleStep(h, "failed", "EntityNotFound", call(NoId), roles)
               ELSE RoleStep(h, "loaded", "ok", call(LoadRole(roles, arg)), roles)
          ELSE IF findByName(roles, arg) # {}
               THEN RoleStep(h, "failed", "EntityAlreadyExists", call(NoId), roles)
               ELSE RoleStep(h, "loaded", "ok", call(RoleCreate(NoId, arg, TRUE, now)), roles)

\* "unset any existing default role": findDefaultRole, removeAsDefault, update
RoleUnsetDefault(h) ==
    LET call == flight.calls[h] IN
    /\ call.pc = "loaded"
    /\ \E tbl \in IF call.kind = "updateRole"
                  THEN UnsetOtherDefaultRole(roles, call.role, "true")
                  ELSE UnsetDefaultRole(roles, TRUE) :
         RoleStep(h, "unset", "ok", call, tbl)

\* updateRole: role.setAsDefault(), roleRepository.update(role);
\* createRole: roleRepository.create(role)
RoleWrite(h) ==
    LET call == flight.calls[h] IN
    /\ call.pc = "unset"
    /\ IF call.kind = "updateRole"
       THEN RoleStep(h, "returned", "ok", call,
                     SaveRole(roles, setAsDefault(call.role).role))
       ELSE /\ FreeRoleIds(roles) # {}
            /\ RoleStep(h, "returned", "ok", call,
                        [roles EXCEPT ![CHOOSE r \in FreeRoleIds(roles) : TRUE] =
                                         RoleRow(call.role.name, {}, TRUE)])

(***************************************************************************)
(* SpecDefaultRace: two RoleService requests that ask for isDefault = true *)
(* run, each once, interleaved at their repository calls.  Before they     *)
(* start, the default role may have been moved or removed by updateRole    *)
(* requests that ran alone.                                                *)
(***************************************************************************)
NextDefaultRace ==
    \/ /\ \A h \in Handlers : flight.calls[h].pc = "idle"
       /\ \E rid \in {1, 2}, d \in {"true", "false"} : UpdateRole(rid, <<>>, <<>>, d)
    \/ \E h \in Handlers, rid \in RoleIds : RoleRequest(h, "updateRole", rid)
    \/ \E h \in Handlers, name \in {N_User, N_user} : RoleRequest(h, "createRole", name)
    \/ \E h \in Handlers : RoleUnsetDefault(h)
    \/ \E h \in Handlers : RoleWrite(h)

SpecDefaultRace == InitTables /\ [][NextDefaultRace]_vars

\* C28: when two RoleService requests that each ask for isDefault = true
\* (createRole, createRoleWithPermissions or updateRole) are interleaved at
\* their repository calls, at most one stored role has isDefault = true once
\* both have finished.
C28_OneDefaultAfterBothFinished ==
    (\A h \in Handlers : flight.calls[h].pc \in {"returned", "failed"})
       => Cardinality(findDefaultRole(roles)) <= 1

(***************************************************************************)
(* SpecEscalation: the role 'user', the only role the registered user      *)
(* holds and not an admin-type role, is renamed, made or unmade the        *)
(* default role, and given and stripped of permissions through             *)
(* RoleService.                                                            *)
(***************************************************************************)
NextEscalation ==
    \/ \E name \in {<<>>, N_User, N_administrator}, d \in {"undef", "true", "false"} :
         UpdateRole(2, name, <<>>, d)
    \/ \E pid \in PermissionIds \cup {NoId} : AssignPermissionToRole(2, pid)
    \/ \E pid \in PermissionIds : RemovePermissionFromRole(2, pid)

SpecEscalation == InitTables /\ [][NextEscalation]_vars

\* C30: if a user holds only roles that are not admin-type, no sequence of
\* RoleService.updateRole, assignPermissionToRole and removePermissionFromRole
\* calls on those roles makes the user satisfy AdminUserSpecification or
\* isEligibleForAdminRole.
C30_NoEscalationThroughRoleEdits ==
    /\ ~HoldsAdminRole(users, roles, 2)
    /\ isEligibleForAdminRole(LoadUser(users, roles, 2)) # "true"

\* neither assignPermissionToRole nor removePermissionFromRole turns a role
\* that is not admin-type into an admin-type one
C30_NoEscalationThroughPermissions ==
    [][(/\ last'.op \in {"assignPermissionToRole", "removePermissionFromRole"}
        /\ ~HoldsAdminRole(users, roles, 2))
          => /\ ~HoldsAdminRole(users', roles', 2)
             /\ isEligibleForAdminRole(LoadUser(users', roles', 2)) # "true"
      ]_vars

(***************************************************************************)
(* SpecLogin: verification codes are issued for the registered user's      *)
(* email address and verified, the user logs in with either password,      *)
(* switches two-factor authentication on and off and is deactivated and    *)
(* activated again, while the clock advances three minutes at a time: a    *)
(* verification code expires after five.                                   *)
(***************************************************************************)
\* how many times the clock advances
MaxLoginJumps == 2

NextLogin ==
    \/ \E code \in Codes : GenerateEmailVerificationCode(E_user, code)
    \/ \E code \in Codes : VerifyEmailCode(E_user, code)
    \/ \E password \in Passwords : LoginCommand(E_user, password)
    \/ SetupTwoFactorAuth(2, "SECRET-A")
    \/ DisableTwoFactorAuth(2)
    \/ DeactivateUser(2)
    \/ ActivateUser(2)
    \/ Tick(3, MaxLoginJumps * 3)

SpecLogin == InitTables /\ [][NextLogin]_vars

\* C31: LoginCommandHandler issues an access/refresh token pair only when
\* validateCredentials returned a user, that user's email is verified and the
\* user does not have OTP enabled; when the email is unverified or OTP is
\* enabled it returns the corresponding 'required' response and stores no
\* refresh token.
C31_LoginIssuesOnlyWhenVerifiedWithoutOtp ==
    [][last'.op = "LoginCommand"
         => LET email == last'.arg[1]
                uid == validateCredentials(email, last'.arg[2], FALSE)
                verified == \E v \in verifs : v.email = email /\ v.verifiedAt # <<>>
            IN /\ last'.issued <=> (uid # NoId /\ verified /\ ~users[uid].otpEnabled)
               /\ last'.issued
                    => /\ last'.uid = uid
                       /\ \E r \in refresh' \ refresh :
                             r.userId = uid /\ r.token = last'.refreshToken
               /\ ~last'.issued => refresh' = refresh
               /\ uid = NoId => last'.err = "Unauthorized"
               /\ (uid # NoId /\ ~verified) => last'.err = "requiresEmailVerification"
               /\ (uid # NoId /\ verified /\ users[uid].otpEnabled)
                    => last'.err = "requiresOtp"
      ]_vars

\* a login with the right password was answered with requiresEmailVerification
\* while no refresh token is stored
C31_UnverifiedLoginStoresNothing ==
    /\ last.op = "LoginCommand"
    /\ last.err = "requiresEmailVerification"
    /\ last.uid = 2
    /\ refresh = {}

(***************************************************************************)
(* UserService.updateUserDetails with roleIds, under SpecRbac.             *)
(***************************************************************************)
\* C32: for every active user and every non-empty set S of existing roles the
\* user is allowed to hold (here: roles that are not admin-type, which every
\* active user may hold), UserService.updateUserDetails(roleIds = S) succeeds
\* and leaves the user's role set exactly S, whatever roles the user held
\* before the call.
C32_RoleSetBecomesRequested ==
    [][(/\ last'.op = "updateUserDetails"
        /\ last'.roleIds.given
        /\ last'.isActive = "undef"
        /\ users[last'.uid].exists
        /\ users[last'.uid].isActive
        /\ last'.roleIds.ids # <<>>
        /\ \A i \in 1..Len(last'.roleIds.ids) :
              /\ roles[last'.roleIds.ids[i]].exists
              /\ ~isAdminRole(LoadRole(roles, last'.roleIds.ids[i])))
       => /\ last'.err = "ok"
          /\ users'[last'.uid].roleIds
                = {last'.roleIds.ids[i] : i \in 1..Len(last'.roleIds.ids)}
      ]_vars

\* the same when S shares a role with the roles held before the call
C32_RoleSetBecomesRequestedWhenOverlapping ==
    [][(/\ last'.op = "updateUserDetails"
        /\ last'.roleIds.given
        /\ last'.isActive = "undef"
        /\ users[last'.uid].exists
        /\ users[last'.uid].isActive
        /\ \E i \in 1..Len(last'.roleIds.ids) :
              last'.roleIds.ids[i] \in users[last'.uid].roleIds
        /\ \A i \in 1..Len(last'.roleIds.ids) :
              /\ roles[last'.roleIds.ids[i]].exists
              /\ ~isAdminRole(LoadRole(roles, last'.roleIds.ids[i])))
       => /\ last'.err = "ok"
          /\ users'[last'.uid].roleIds
                = {last'.roleIds.ids[i] : i \in 1..Len(last'.roleIds.ids)}
      ]_vars

(***************************************************************************)
(* Failing createRole and createRoleWithPermissions calls, under SpecRole. *)
(***************************************************************************)
\* C33: a RoleService.createRole or createRoleWithPermissions call that fails
\* (role name already taken, or a permission id that does not exist) leaves
\* the stored roles unchanged: the role that was default before the call is
\* still default afterwards.
C33_FailedCreateLeavesRolesUnchanged ==
    [][(/\ last'.op \in {"createRole", "createRoleWithPermissions"}
        /\ last'.err \in {"EntityAlreadyExists", "EntityNotFound"})
       => /\ roles' = roles
          /\ findDefaultRole(roles') = findDefaultRole(roles)
      ]_vars

\* a call refused because the role name is taken leaves the stored roles
\* unchanged
C33_NameTakenLeavesRolesUnchanged ==
    [][(/\ last'.op \in {"createRole", "createRoleWithPermissions"}
        /\ last'.err = "EntityAlreadyExists")
       => roles' = roles
      ]_vars

(***************************************************************************)
(* Email verification over time, under SpecLogin.                          *)
(***************************************************************************)
\* C34: once an email has been verified, AuthService.isEmailVerified(email)
\* stays true across every later sequence of generateEmailVerificationCode,
\* verifyEmailCode and login calls for that email.
C34_VerifiedStaysVerified ==
    [][isEmailVerified(E_user) => isEmailVerified(E_user)']_vars

\* verifyEmailCode and login calls leave a verified email verified
C34_VerifiedStaysVerifiedUnlessReissued ==
    [][(isEmailVerified(E_user) /\ last'.op # "generateEmailVerificationCode")
          => isEmailVerified(E_user)']_vars

(***************************************************************************)
(* The seconds a rejected trackRequest reports, under SpecThrottle, where  *)
(* every call comes with a ttl of one second.                              *)
(***************************************************************************)
\* would trackRequest(identifier, limit) succeed at time t on the storage st?
TrackSucceedsAt(st, identifier, limit, t) ==
    LET record == cleanupExpiredRecords(st, t)[identifier] IN
    ~record.present \/ t > record.ttl \/ ~limitReached(record, limit)

\* C35: whenever trackRequest is rejected, the number of seconds it reports is
\* at least 1 and at most ttl, and a trackRequest for the same identifier made
\* exactly that many seconds later succeeds.
C35_RetryAfterSecondsSucceeds ==
    (last.op = "trackRequest" /\ last.err = "Throttling")
       => /\ last.seconds >= 1
          /\ last.seconds <= 1
          /\ TrackSucceedsAt(storage, last.id, last.limit, now + last.seconds * 1000)

\* the seconds reported are at least 0 and at most ttl, and a trackRequest
\* made a millisecond later than that many seconds after the rejection
\* succeeds
C35_RetryLaterThanSecondsSucceeds ==
    (last.op = "trackRequest" /\ last.err = "Throttling")
       => /\ last.seconds >= 0
          /\ last.seconds <= 1
          /\ TrackSucceedsAt(storage, last.id, last.limit, now + last.seconds * 1000 + 1)

\* a rejection made before the expiry of the window reports one second, and
\* the trackRequest made one second later is rejected too when the rejection
\* came a whole number of seconds before the expiry
C35_RetryAtExpiryRejected ==
    /\ last.op = "trackRequest"
    /\ last.err = "Throttling"
    /\ last.seconds = 1
    /\ ~TrackSucceedsAt(storage, last.id, last.limit, now + last.seconds * 1000)

(***************************************************************************)
(* Identifiers do not disturb each other, under SpecThrottle.  The methods *)
(* of ThrottlerService contain no await, so that each runs to its end      *)
(* once called; the calls themselves come in any order.                    *)
(***************************************************************************)
ThrottlerCalls == {"trackRequest", "isAllowed", "getRemainingRequests", "resetThrottling"}

\* C36: throttler operations on one identifier, in any order and interleaving
\* with operations on other identifiers, never change the count, window
\* expiry or remaining quota of a different identifier whose window is still
\* live.  The remaining quota of an identifier is computed from its record,
\* the count and the expiry, and the limit of the call that asks.
C36_OtherIdentifiersUntouched ==
    [][last'.op \in ThrottlerCalls
         => \A other \in ThrottleIds \ {last'.id} :
               (storage[other].present /\ now <= storage[other].ttl)
                  => storage'[other] = storage[other]
      ]_vars

\* a request for "x" was rejected while the window of "y", with one request
\* counted, is live
C36_RejectedBesideLiveWindow ==
    /\ last.op = "trackRequest"
    /\ last.id = "x"
    /\ last.err = "Throttling"
    /\ storage["y"].present
    /\ storage["y"].count = 1
    /\ now <= storage["y"].ttl

(***************************************************************************)
(* The codes that verify an email address, under SpecLogin.                *)
(***************************************************************************)
\* C37: after AuthService.generateEmailVerificationCode(email) returns code c,
\* c is the only code that verifies for that email: every code issued for the
\* email earlier (any code other than c) is rejected by verifyEmailCode with
\* OtpInvalid, and c is rejected with OtpExpired once its expiry has passed.
\* The codes that verify stay the same until the next code is issued.
C37_OnlyTheLatestCodeVerifies ==
    [][/\ \A c \in Codes :
             (/\ last'.op = "generateEmailVerificationCode"
              /\ last'.err = "ok"
              /\ last'.email = E_user
              /\ last'.code = c)
             => /\ \A o \in verifyEmailCode(E_user, c)' : o.err = "ok"
                /\ \A k \in Codes \ {c} :
                      \A o \in verifyEmailCode(E_user, k)' : o.err = "OtpInvalid"
       /\ last'.op = "verifyEmailCode"
          => LET issued == {r \in verifs : r.email = last'.email}
                 c == (CHOOSE r \in issued : TRUE).code
                 expiry == (CHOOSE r \in issued : TRUE).expiresAt
             IN /\ Cardinality(issued) <= 1
                /\ {[code |-> r.code, expiresAt |-> r.expiresAt] :
                       r \in {q \in verifs' : q.email = last'.email}}
                     = {[code |-> r.code, expiresAt |-> r.expiresAt] : r \in issued}
                /\ last'.err = IF issued = {} \/ last'.code # c THEN "OtpInvalid"
                               ELSE IF now > expiry THEN "OtpExpired"
                               ELSE "ok"
      ]_vars

\* the code issued last was rejected with OtpExpired, six minutes after it was
\* issued
C37_LatestCodeExpired ==
    /\ last.op = "verifyEmailCode"
    /\ last.err = "OtpExpired"
    /\ now = 6
    /\ \E r \in verifs : r.email = last.email /\ r.code = last.code /\ r.expiresAt = 5

(***************************************************************************)
(* RolesCollection and PermissionsCollection as the lists they are built   *)
(* from.  A collection is the sequence of its entries; every method that   *)
(* returns a collection goes through the private constructor, which        *)
(* validates the list.  The methods return [err, items]: the message of    *)
(* the InvalidValueObjectException raised, or "ok" and the entries of the  *)
(* collection returned.                                                    *)
(***************************************************************************)
\* a validation that looks at the ids only
RolesCollectionValidate_IdsOnly(list) ==
    IF \E i, j \in 1..Len(list) : i < j /\ list[i].id = list[j].id
    THEN "Duplicate role ID" ELSE "ok"

\* RolesCollection.validateRoles: the loop throws at the first entry whose id,
\* or else whose lower-cased name, an earlier entry has
RolesCollectionValidate(list) ==
    LET dupId(i) == \E j \in 1..(i - 1) : list[j].id = list[i].id
        dupName(i) == \E j \in 1..(i - 1) :
                         ToLowerCase(list[j].name) = ToLowerCase(list[i].name)
        bad == {i \in 1..Len(list) : dupId(i) \/ dupName(i)}
        first == CHOOSE i \in bad : \A j \in bad : i <= j
    IN IF bad # {}
       THEN IF dupId(first) THEN "Duplicate role ID" ELSE "Duplicate role name"
       ELSE IF Cardinality({i \in 1..Len(list) : list[i].isDefault}) > 1
       THEN "Cannot have more than one default role"
       ELSE "ok"

\* RolesCollection.create, and the private constructor
RolesCollectionCreate(list) ==
    [err |-> RolesCollectionValidate(list),
     items |-> IF RolesCollectionValidate(list) = "ok" THEN list ELSE <<>>]

RolesCollectionContains(items, rid) == \E i \in 1..Len(items) : items[i].id = rid

RolesCollectionAdd(items, role) ==
    IF RolesCollectionContains(items, role.id)
    THEN [err |-> "already exists in collection", items |-> <<>>]
    ELSE RolesCollectionCreate(Append(items, role))

RolesCollectionRemove(items, rid) ==
    LET keep(r) == r.id # rid IN
    IF Len(SelectSeq(items, keep)) = Len(items)
    THEN [err |-> "ok", items |-> items]
    ELSE RolesCollectionCreate(SelectSeq(items, keep))

RolesCollectionMerge(items, other) ==
    LET new(r) == ~RolesCollectionContains(items, r.id) IN
    RolesCollectionCreate(items \o SelectSeq(other, new))

RolesCollectionIntersect(items, other) ==
    LET shared(r) == RolesCollectionContains(other, r.id) IN
    RolesCollectionCreate(SelectSeq(items, shared))

\* PermissionsCollection.validatePermissions: the same loop over the ids and
\* the names resource:action
PermissionsCollectionValidate(list) ==
    LET dupId(i) == \E j \in 1..(i - 1) : list[j].id = list[i].id
        dupName(i) == \E j \in 1..(i - 1) :
                         getPermissionName(list[j]) = getPermissionName(list[i])
        bad == {i \in 1..Len(list) : dupId(i) \/ dupName(i)}
        first == CHOOSE i \in bad : \A j \in bad : i <= j
    IN IF bad # {}
       THEN IF dupId(first) THEN "Duplicate permission ID" ELSE "Duplicate permission name"
       ELSE "ok"

PermissionsCollectionCreate(list) ==
    [err |-> PermissionsCollectionValidate(list),
     items |-> IF PermissionsCollectionValidate(list) = "ok" THEN list ELSE <<>>]

PermissionsCollectionContains(items, pid) == \E i \in 1..Len(items) : items[i].id = pid

PermissionsCollectionAdd(items, permission) ==
    IF PermissionsCollectionContains(items, permission.id)
    THEN [err |-> "already exists in collection", items |-> <<>>]
    ELSE PermissionsCollectionCreate(Append(items, permission))

PermissionsCollectionRemove(items, pid) ==
    LET keep(q) == q.id # pid IN
    IF Len(SelectSeq(items, keep)) = Len(items)
    THEN [err |-> "ok", items |-> items]
    ELSE PermissionsCollectionCreate(SelectSeq(items, keep))

PermissionsCollectionMerge(items, other) ==
    LET new(q) == ~PermissionsCollectionContains(items, q.id) IN
    PermissionsCollectionCreate(items \o SelectSeq(other, new))

PermissionsCollectionIntersect(items, other) ==
    LET shared(q) == PermissionsCollectionContains(other, q.id) IN
    PermissionsCollectionCreate(SelectSeq(items, shared))

\* the call `op` of class `class` with the argument `input` gave `res`: the
\* collection returned replaces the one held
CollectionCall(class, op, input, res) ==
    /\ UNCHANGED <<roles, users, refresh, resets, verifs, otps, storage, now, win, flight>>
    /\ ent' = IF res.err = "ok"
              THEN [ent EXCEPT !.collection = [class |-> class, items |-> res.items]]
              ELSE ent
    /\ last' = [op |-> op, err |-> res.err, class |-> class, input |-> input]

(***************************************************************************)
(* SpecCollections: collections are created from lists of up to            *)
(* MaxCollectionSize entries, among them entries that share an id, a name  *)
(* or a name up to case, and are changed by add, remove, merge and         *)
(* intersect, the last two with every collection that create accepts.      *)
(***************************************************************************)
\* longest list a collection is created from (add and merge make longer ones)
MaxCollectionSize == 2

RoleEntries ==
    {[id |-> 1, name |-> N_admin, perms |-> {}, isDefault |-> FALSE],
     [id |-> 2, name |-> N_user, perms |-> {}, isDefault |-> TRUE],
     [id |-> 3, name |-> N_User, perms |-> {}, isDefault |-> FALSE],
     [id |-> 1, name |-> N_User, perms |-> {}, isDefault |-> FALSE],
     [id |-> 3, name |-> N_administrator, perms |-> {}, isDefault |-> TRUE]}

PermissionEntries == Permissions \cup {[id |-> 1, resource |-> "role", action |-> "update"]}

ListsOf(entries) == UNION {[1..n -> entries] : n \in 0..MaxCollectionSize}

\* every RolesCollection that create returns
RolesCollections == {l \in ListsOf(RoleEntries) : RolesCollectionValidate(l) = "ok"}

PermissionsCollections ==
    {l \in ListsOf(PermissionEntries) : PermissionsCollectionValidate(l) = "ok"}

HoldsRoles == ent.collection.class = "RolesCollection"

HoldsPermissions == ent.collection.class = "PermissionsCollection"

NextCollections ==
    \/ \E list \in ListsOf(RoleEntries) :
         CollectionCall("RolesCollection", "create", list, RolesCollectionCreate(list))
    \/ \E role \in RoleEntries :
         /\ HoldsRoles
         /\ CollectionCall("RolesCollection", "add", role,
                           RolesCollectionAdd(ent.collection.items, role))
    \/ \E rid \in RoleIds :
         /\ HoldsRoles
         /\ CollectionCall("RolesCollection", "remove", rid,
                           RolesCollectionRemove(ent.collection.items, rid))
    \/ \E other \in RolesCollections :
         /\ HoldsRoles
         /\ CollectionCall("RolesCollection", "merge", other,
                           RolesCollectionMerge(ent.collection.items, other))
    \/ \E other \in RolesCollections :
         /\ HoldsRoles
         /\ CollectionCall("RolesCollection", "intersect", other,
                           RolesCollectionIntersect(ent.collection.items, other))
    \/ \E list \in ListsOf(PermissionEntries) :
         CollectionCall("PermissionsCollection", "create", list,
                        PermissionsCollectionCreate(list))
    \/ \E permission \in PermissionEntries :
         /\ HoldsPermissions
         /\ CollectionCall("PermissionsCollection", "add", permission,
                           PermissionsCollectionAdd(ent.collection.items, permission))
    \/ \E pid \in PermissionIds :
         /\ HoldsPermissions
         /\ CollectionCall("PermissionsCollection", "remove", pid,
                           PermissionsCollectionRemove(ent.collection.items, pid))
    \/ \E other \in PermissionsCollections :
         /\ HoldsPermissions
         /\ CollectionCall("PermissionsCollection", "merge", other,
                           PermissionsCollectionMerge(ent.collection.items, other))
    \/ \E other \in PermissionsCollections :
         /\ HoldsPermissions
         /\ CollectionCall("PermissionsCollection", "intersect", other,
                           PermissionsCollectionIntersect(ent.collection.items, other))

SpecCollections == InitTables /\ [][NextCollections]_vars

\* the name of an entry of a collection of the class
EntryName(class, entry) ==
    IF class = "RolesCollection" THEN entry.name ELSE getPermissionName(entry)

\* two entries of the list share an id or share a name
SharesIdOrName(class, list) ==
    \E i, j \in 1..Len(list) :
       /\ i < j
       /\ \/ list[i].id = list[j].id
          \/ EntryName(class, list[i]) = EntryName(class, list[j])

CollectionCalls == {"create", "add", "remove", "merge", "intersect"}

\* C38: constructing a RolesCollection or PermissionsCollection from a list in
\* which two entries share an id or share a name always fails with a
\* duplicate-detection error, and every collection produced by add, remove,
\* merge or intersect on valid collections again contains no two entries with
\* the same id or name.
C38_NoDuplicatesInCollections ==
    /\ (last.op = "create" /\ SharesIdOrName(last.class, last.input))
          => last.err \in {"Duplicate role ID", "Duplicate role name",
                           "Duplicate permission ID", "Duplicate permission name"}
    /\ ~SharesIdOrName(ent.collection.class, ent.collection.items)
    /\ (last.op \in CollectionCalls /\ last.err = "ok")
          => /\ ent.collection.class = last.class
             /\ last.op = "create" => ent.collection.items = last.input

\* a merge of two collections, one holding the role 'user' and the other the
\* role 'User' under another id, was refused for the duplicate name, and the
\* collection held has two roles
C38_MergeRefusedForDuplicateName ==
    /\ last.op = "merge"
    /\ last.class = "RolesCollection"
    /\ last.err = "Duplicate role name"
    /\ Len(ent.collection.items) = 2
    /\ Len(last.input) = 2

(***************************************************************************)
(* The queries on a user's roles, under SpecRbac.                          *)
(***************************************************************************)
\* C39: User.hasPermission and User.isEligibleForAdminRole (and so
\* canAccessResource, canAssignRole and canDeleteRole) return a boolean
\* without raising for every user whose roles were created through
\* RoleService and attached through User.addRole.
C39_RoleQueriesNeverRaise ==
    \A uid \in UserIds :
       users[uid].exists
          => /\ isEligibleForAdminRole(LoadUser(users, roles, uid)) # "throw"
             /\ \A p \in Permissions :
                   hasPermission(LoadUser(users, roles, uid), getPermissionName(p)) # "throw"

\* the queries return a boolean for every user whose roles have different
\* names up to case
C39_RoleQueriesRaiseOnlyOnNamesEqualUpToCase ==
    \A uid \in UserIds :
       (/\ users[uid].exists
        /\ \A r, q \in users[uid].roleIds :
              (r # q) => ToLowerCase(roles[r].name) # ToLowerCase(roles[q].name))
          => /\ isEligibleForAdminRole(LoadUser(users, roles, uid)) # "throw"
             /\ \A p \in Permissions :
                   hasPermission(LoadUser(users, roles, uid), getPermissionName(p)) # "throw"

(***************************************************************************)
(* Role.addPermission and the admin type of a role, under SpecObjects.     *)
(***************************************************************************)
\* the role holds a critical permission on an admin resource, or its name
\* contains "admin"
AdminType(role) ==
    \/ \E q \in role.perms : /\ q.resource \in {"user", "role", "permission", "system"}
                             /\ q.action \in {"create", "update", "delete"}
    \/ Includes(ToLowerCase(role.name), N_admin)

\* C40: Role.addPermission never turns a role that is not admin-type into an
\* admin-type role: if isAdminRole() is false before a successful
\* addPermission, it is still false afterwards.
C40_AddPermissionKeepsNonAdmin ==
    [][(last'.op = "addPermission" /\ last'.err = "ok" /\ ~AdminType(ent.role))
          => (~AdminType(ent'.role) /\ ~isAdminRole(ent'.role))
      ]_vars

\* "user:read" was added to a role that is not admin-type
C40_ReadPermissionAddedToPlainRole ==
    /\ last.op = "addPermission"
    /\ last.err = "ok"
    /\ last.arg = P_userRead
    /\ P_userRead \in ent.role.perms
    /\ ~AdminType(ent.role)
====
